---- MODULE Spec2Model ----
(***************************************************************************)
(* The trading / staking / portfolio ledger of the Crypto Sports Center    *)
(* server: the request handlers of routes.ts over the in-memory store      *)
(* MemStorage (storage.ts).                                                *)
(*                                                                         *)
(* Money is kept the way the program keeps it: token prices are decimal    *)
(* strings ('2.65'), turned into IEEE-754 binary64 numbers by Number(),    *)
(* and multiplied, divided and added as binary64.  A decimal string is     *)
(* written here as its number of cents; a binary64 value is a record       *)
(* [s, m, e] meaning s * m * 2^e with m a 53-bit natural number.           *)
(***************************************************************************)
EXTENDS Integers, Sequences, FiniteSets, TLC

(***************************************************************************)
(* Natural numbers of any size, as sequences of limbs (least significant   *)
(* first, no leading zero limb; zero is the empty sequence).  They carry   *)
(* the 53-bit significands and the exact intermediate results that the     *)
(* binary64 operations round.                                              *)
(***************************************************************************)
Limb == 2^15

RECURSIVE Pow2(_)
Pow2(n) == IF n = 0 THEN 1 ELSE 2 * Pow2(n - 1)

RECURSIVE BigNorm(_)
BigNorm(x) ==
    IF x = <<>> THEN <<>>
    ELSE IF x[Len(x)] = 0 THEN BigNorm(SubSeq(x, 1, Len(x) - 1))
    ELSE x

RECURSIVE BigFromNat(_)
BigFromNat(n) ==
    IF n = 0 THEN <<>> ELSE <<n % Limb>> \o BigFromNat(n \div Limb)

RECURSIVE BigToNat(_)
BigToNat(x) ==
    IF x = <<>> THEN 0 ELSE x[1] + Limb * BigToNat(Tail(x))

RECURSIVE BigAddC(_, _, _)
BigAddC(x, y, c) ==
    IF x = <<>> /\ y = <<>> THEN (IF c = 0 THEN <<>> ELSE <<c>>)
    ELSE LET a == IF x = <<>> THEN 0 ELSE x[1]
             b == IF y = <<>> THEN 0 ELSE y[1]
             t == a + b + c
         IN  <<t % Limb>> \o
             BigAddC(IF x = <<>> THEN <<>> ELSE Tail(x),
                     IF y = <<>> THEN <<>> ELSE Tail(y), t \div Limb)

BigAdd(x, y) == BigAddC(x, y, 0)

\* x - y for x >= y
RECURSIVE BigSubB(_, _, _)
BigSubB(x, y, b) ==
    IF x = <<>> THEN <<>>
    ELSE LET s == IF y = <<>> THEN 0 ELSE y[1]
             t == x[1] - s - b
         IN  <<IF t < 0 THEN t + Limb ELSE t>> \o
             BigSubB(Tail(x), IF y = <<>> THEN <<>> ELSE Tail(y),
                     IF t < 0 THEN 1 ELSE 0)

BigSub(x, y) == BigNorm(BigSubB(x, y, 0))

\* -1, 0, 1 as x < y, x = y, x > y (both normalised)
RECURSIVE BigCmpFrom(_, _, _)
BigCmpFrom(x, y, i) ==
    IF i = 0 THEN 0
    ELSE IF x[i] < y[i] THEN -1
    ELSE IF x[i] > y[i] THEN 1
    ELSE BigCmpFrom(x, y, i - 1)

BigCmp(x, y) ==
    IF Len(x) < Len(y) THEN -1
    ELSE IF Len(x) > Len(y) THEN 1
    ELSE BigCmpFrom(x, y, Len(x))

\* x * k for 0 <= k <= Limb
RECURSIVE BigMulC(_, _, _)
BigMulC(x, k, c) ==
    IF x = <<>> THEN (IF c = 0 THEN <<>> ELSE <<c>>)
    ELSE LET t == x[1] * k + c
         IN  <<t % Limb>> \o BigMulC(Tail(x), k, t \div Limb)

BigMulSmall(x, k) == IF k = 0 THEN <<>> ELSE BigMulC(x, k, 0)

\* floor(x / k) for 1 <= k <= Limb, limb i downwards, r the running remainder
RECURSIVE BigDivC(_, _, _, _)
BigDivC(x, k, i, r) ==
    IF i = 0 THEN <<>>
    ELSE LET t == r * Limb + x[i]
         IN  BigDivC(x, k, i - 1, t % k) \o <<t \div k>>

BigDivSmall(x, k) == BigNorm(BigDivC(x, k, Len(x), 0))

BigShl(x, n) ==
    IF x = <<>> THEN <<>>
    ELSE [i \in 1..(n \div 15) |-> 0] \o BigMulSmall(x, Pow2(n % 15))

BigShr(x, n) ==
    IF Len(x) <= n \div 15 THEN <<>>
    ELSE BigDivSmall(SubSeq(x, (n \div 15) + 1, Len(x)), Pow2(n % 15))

RECURSIVE BitLen(_)
BitLen(n) == IF n = 0 THEN 0 ELSE 1 + BitLen(n \div 2)

BigBitLen(x) == IF x = <<>> THEN 0 ELSE 15 * (Len(x) - 1) + BitLen(x[Len(x)])

BigBit(x, i) == IF Len(x) <= i \div 15 THEN 0
                ELSE (x[(i \div 15) + 1] \div Pow2(i % 15)) % 2

BigOdd(x) == x /= <<>> /\ x[1] % 2 = 1

BigLimbAt(x, i) == IF i <= Len(x) THEN x[i] ELSE 0

\* the leading limbs of rr by the leading limb of d, which is at least
\* Limb \div 2: the digit or up to two more
BigDigitEst(rr, d) ==
    LET t == (BigLimbAt(rr, Len(d) + 1) * Limb + BigLimbAt(rr, Len(d))) \div d[Len(d)]
    IN  IF t >= Limb THEN Limb - 1 ELSE t

\* the largest digit g < Limb with d * g <= rr, for rr < d * Limb
BigDigit(rr, d, g) ==
    IF BigCmp(BigMulSmall(d, g), rr) <= 0 THEN g
    ELSE IF BigCmp(BigMulSmall(d, g - 1), rr) <= 0 THEN g - 1
    ELSE g - 2

\* long division, one limb of n at a time from limb i down, r the running
\* remainder: the quotient's limbs (least significant first) and, last, the
\* final remainder
RECURSIVE BigDivLimbs(_, _, _, _)
RECURSIVE BigDivLimb(_, _, _, _, _)

\* the step for limb i: rr is the remainder with the limb brought down, g
\* the quotient's digit
BigDivLimb(n, d, i, rr, g) ==
    IF g = 0 THEN BigDivLimbs(n, d, i - 1, rr) \o <<0>>
    ELSE BigDivLimbs(n, d, i - 1, BigSub(rr, BigMulSmall(d, g))) \o <<g>>

BigBringDown(n, d, i, rr) == BigDivLimb(n, d, i, rr, BigDigit(rr, d, BigDigitEst(rr, d)))

BigDivLimbs(n, d, i, r) ==
    IF i = 0 THEN <<r>> ELSE BigBringDown(n, d, i, BigNorm(<<n[i]>> \o r))

BigDivSplit(w, sh) == [q |-> BigNorm(Tail(w)), r |-> BigShr(w[1], sh)]

\* n and d shifted alike until the leading limb of d is at least Limb \div 2
BigDivShifted(n, d, sh) ==
    BigDivSplit(BigDivLimbs(BigShl(n, sh), BigShl(d, sh), Len(BigShl(n, sh)), <<>>), sh)

\* quotient q and remainder r of n by d, d > 0
BigDivMod(n, d) ==
    IF d = <<1>> THEN [q |-> n, r |-> <<>>]
    ELSE BigDivShifted(n, d, 15 - BitLen(d[Len(d)]))

(***************************************************************************)
(* IEEE-754 binary64, the number type of the program.  A value is          *)
(* [s, m, e]: sign s in {-1, 0, 1} and magnitude m * 2^e, with m of        *)
(* exactly 53 bits (zero: s = 0, m = <<>>, e = 0).  Every operation is the *)
(* exact result rounded to nearest, ties to even, as the hardware does it. *)
(* The values of the model stay far inside the normal range.               *)
(***************************************************************************)
DZero == [s |-> 0, m |-> <<>>, e |-> 0]

\* the binary64 nearest to the positive rational n * 2^sh / d: the quotient
\* is taken to 56 or 57 bits (t is the shift that gives them), cut to 53 bits
\* (drop is the number of bits cut), and rounded on the bits cut and on the
\* remainder of the division (sticky)
RoundCarry(m1, e) ==
    IF BigBitLen(m1) = 54 THEN [m |-> BigShr(m1, 1), e |-> e + 1]
    ELSE [m |-> m1, e |-> e]

RoundUp(m0, c, sticky, e) ==
    RoundCarry(IF c > 0 \/ (c = 0 /\ (sticky \/ BigOdd(m0)))
               THEN BigAdd(m0, <<1>>) ELSE m0, e)

RoundLow(m0, q, sticky, drop, e) ==
    RoundUp(m0, BigCmp(BigSub(q, BigShl(m0, drop)), BigShl(<<1>>, drop - 1)),
            sticky, e + drop)

RoundDrop(q, sticky, drop, e) == RoundLow(BigShr(q, drop), q, sticky, drop, e)

RoundQuot(dm, e) == RoundDrop(dm.q, dm.r /= <<>>, BigBitLen(dm.q) - 53, e)

RoundShifted(n, d, sh, t) ==
    RoundQuot(BigDivMod(IF t >= 0 THEN BigShl(n, t) ELSE n,
                        IF t >= 0 THEN d ELSE BigShl(d, 0 - t)), sh - t)

\* the binary64 nearest to the positive integer multiple n * 2^sh, len the
\* number of bits of n: exact up to 53 bits, cut to 53 bits beyond
RoundInt(n, sh, len) ==
    IF len > 53 THEN RoundDrop(n, FALSE, len - 53, sh)
    ELSE [m |-> BigShl(n, 53 - len), e |-> sh - (53 - len)]

RoundRat(n, d, sh) ==
    IF d = <<1>> THEN RoundInt(n, sh, BigBitLen(n))
    ELSE RoundShifted(n, d, sh, 56 - (BigBitLen(n) - BigBitLen(d)))

Sign(n) == IF n < 0 THEN -1 ELSE IF n > 0 THEN 1 ELSE 0
Abs(n) == IF n < 0 THEN 0 - n ELSE n

WithSign(s, r) == [s |-> s, m |-> r.m, e |-> r.e]

DRound(s, n, d, sh) ==
    IF s = 0 \/ n = <<>> THEN DZero ELSE WithSign(s, RoundRat(n, d, sh))

\* Number(n) for an integer n
NumberOfInt(n) == DRound(Sign(n), BigFromNat(Abs(n)), <<1>>, 0)

\* Number('d.dd') for a decimal string of c cents
NumberOfDecimal(c) == DRound(Sign(c), BigFromNat(Abs(c)), BigFromNat(100), 0)

\* x * n for a binary64 x and an integer n, |n| <= 2^15 (n is exact as a binary64)
DTimesInt(x, n) ==
    DRound(x.s * Sign(n), BigMulSmall(x.m, Abs(n)), <<1>>, x.e)

\* x / y, y nonzero
DDiv(x, y) == DRound(x.s * y.s, x.m, y.m, x.e - y.e)

\* x + y for nonzero x and y with the significands a and b brought to the
\* exponent e; c compares a with b
DAddAligned(xs, a, ys, b, e, c) ==
    DRound(IF xs = ys \/ c > 0 THEN xs ELSE IF c = 0 THEN 0 ELSE ys,
           IF xs = ys THEN BigAdd(a, b)
           ELSE IF c >= 0 THEN BigSub(a, b) ELSE BigSub(b, a),
           <<1>>, e)

DAddAt(x, y, a, b, e) == DAddAligned(x.s, a, y.s, b, e, BigCmp(a, b))

DAddTo(x, y, e) == DAddAt(x, y, BigShl(x.m, x.e - e), BigShl(y.m, y.e - e), e)

\* x + y
DAdd(x, y) ==
    IF x.s = 0 THEN y
    ELSE IF y.s = 0 THEN x
    ELSE DAddTo(x, y, IF x.e < y.e THEN x.e ELSE y.e)

\* Math.floor(x) for nonzero x, whole being the integer part of |x|
DFloorOf(x, whole, w) ==
    IF x.s > 0 THEN w
    ELSE IF x.e >= 0 \/ BigShl(whole, 0 - x.e) = x.m THEN 0 - w ELSE 0 - (w + 1)

DWhole(x, whole) == DFloorOf(x, whole, BigToNat(whole))

\* Math.floor(x), as an integer
DFloor(x) ==
    IF x.s = 0 THEN 0
    ELSE DWhole(x, IF x.e >= 0 THEN BigShl(x.m, x.e) ELSE BigShr(x.m, 0 - x.e))

(***************************************************************************)
(* The store: MemStorage.  Each Map is a function from the ids it holds to *)
(* the records; a Map's iteration order is its insertion order, which is   *)
(* the order of the ids, since every id comes from a counter that only     *)
(* grows.  Dates are whole days; null and undefined are one "unset" value. *)
(* The userAchievements Map alone can be written out of the order of its   *)
(* ids (an id is taken before an await and the record is set after it), so *)
(* it is the sequence of its records in insertion order.                   *)
(***************************************************************************)
VARIABLES
    users, userIdCounter,
    players, playerIdCounter,
    tokenHoldings, tokenHoldingIdCounter,
    transactions, transactionIdCounter,
    portfolioHistory, portfolioHistoryIdCounter,
    stakingPlans,
    achievements, achievementIdCounter,
    userAchievements, userAchievementIdCounter,
    now,              \* the clock read by new Date(), in days
    handlers          \* the request handlers in flight, each at an await

storeVars == <<users, userIdCounter, players, playerIdCounter,
               tokenHoldings, tokenHoldingIdCounter,
               transactions, transactionIdCounter,
               portfolioHistory, portfolioHistoryIdCounter, stakingPlans,
               achievements, achievementIdCounter,
               userAchievements, userAchievementIdCounter>>

vars == <<storeVars, now, handlers>>

\* bounds of the model
MaxTransactions == 2
MaxNow == 30
TickDays == 30
NumHandlers == 2
MaxUsers == 3
MaxChecks == 1

NoDate == -1
NoPlan == "unset"
NoId   == 0

\* initStakingPlans
PlanSeed ==
    << [name |-> "Rookie Stake",   lockPeriodDays |-> 30,  minTokens |-> 2],
       [name |-> "All-Star Stake", lockPeriodDays |-> 90,  minTokens |-> 5],
       [name |-> "MVP Stake",      lockPeriodDays |-> 180, minTokens |-> 10] >>

\* initPlayers: sport, tokenPrice (a decimal string, in cents), supplies
PlayerSeed ==
    << [sport |-> "NBA", tokenPrice |-> 265, totalSupply |-> 1000, availableSupply |-> 850],
       [sport |-> "NBA", tokenPrice |-> 298, totalSupply |-> 1000, availableSupply |-> 800],
       [sport |-> "NBA", tokenPrice |-> 275, totalSupply |-> 1000, availableSupply |-> 820],
       [sport |-> "NBA", tokenPrice |-> 289, totalSupply |-> 1000, availableSupply |-> 840],
       [sport |-> "NFL", tokenPrice |-> 255, totalSupply |-> 1000, availableSupply |-> 900],
       [sport |-> "NFL", tokenPrice |-> 225, totalSupply |-> 1000, availableSupply |-> 850],
       [sport |-> "NFL", tokenPrice |-> 242, totalSupply |-> 1000, availableSupply |-> 880],
       [sport |-> "NFL", tokenPrice |-> 195, totalSupply |-> 1000, availableSupply |-> 920],
       [sport |-> "NBA", tokenPrice |-> 295, totalSupply |-> 1000, availableSupply |-> 810],
       [sport |-> "NBA", tokenPrice |-> 270, totalSupply |-> 1000, availableSupply |-> 845],
       [sport |-> "NBA", tokenPrice |-> 282, totalSupply |-> 1000, availableSupply |-> 830] >>

\* initAchievements: requirement and requirementValue
AchievementSeed ==
    << [requirement |-> "total_transactions", requirementValue |-> 1],
       [requirement |-> "total_transactions", requirementValue |-> 5],
       [requirement |-> "total_transactions", requirementValue |-> 25],
       [requirement |-> "total_transactions", requirementValue |-> 100],
       [requirement |-> "total_value",        requirementValue |-> 1000],
       [requirement |-> "total_value",        requirementValue |-> 5000],
       [requirement |-> "total_value",        requirementValue |-> 10000],
       [requirement |-> "different_players",  requirementValue |-> 5],
       [requirement |-> "nba_players",        requirementValue |-> 3],
       [requirement |-> "nfl_players",        requirementValue |-> 3],
       [requirement |-> "staked_tokens",      requirementValue |-> 1],
       [requirement |-> "staked_tokens",      requirementValue |-> 3] >>

\* the store as one value, for the operators that model the storage methods
Store ==
    [users |-> users, userIdCounter |-> userIdCounter,
     players |-> players, playerIdCounter |-> playerIdCounter,
     tokenHoldings |-> tokenHoldings, tokenHoldingIdCounter |-> tokenHoldingIdCounter,
     transactions |-> transactions, transactionIdCounter |-> transactionIdCounter,
     portfolioHistory |-> portfolioHistory,
     portfolioHistoryIdCounter |-> portfolioHistoryIdCounter,
     stakingPlans |-> stakingPlans,
     achievements |-> achievements, achievementIdCounter |-> achievementIdCounter,
     userAchievements |-> userAchievements,
     userAchievementIdCounter |-> userAchievementIdCounter]

SetStore(S) ==
    /\ users' = S.users
    /\ userIdCounter' = S.userIdCounter
    /\ players' = S.players
    /\ playerIdCounter' = S.playerIdCounter
    /\ tokenHoldings' = S.tokenHoldings
    /\ tokenHoldingIdCounter' = S.tokenHoldingIdCounter
    /\ transactions' = S.transactions
    /\ transactionIdCounter' = S.transactionIdCounter
    /\ portfolioHistory' = S.portfolioHistory
    /\ portfolioHistoryIdCounter' = S.portfolioHistoryIdCounter
    /\ stakingPlans' = S.stakingPlans
    /\ achievements' = S.achievements
    /\ achievementIdCounter' = S.achievementIdCounter
    /\ userAchievements' = S.userAchievements
    /\ userAchievementIdCounter' = S.userAchievementIdCounter

\* Map.set(id, rec)
MapSet(map, id, rec) ==
    [k \in DOMAIN map \cup {id} |-> IF k = id THEN rec ELSE map[k]]

Min(set) == CHOOSE x \in set : \A y \in set : x <= y

NoUser == [id |-> NoId, username |-> ""]
NoPlayer == [id |-> NoId, sport |-> "", tokenPrice |-> 0,
             totalSupply |-> 0, availableSupply |-> 0]
NoHolding == [id |-> NoId, userId |-> NoId, playerId |-> NoId, amount |-> 0,
              purchasePrice |-> 0, isStaked |-> FALSE, stakingPlan |-> NoPlan,
              stakingStart |-> NoDate, stakingEnd |-> NoDate]

getUser(S, id) == IF id \in DOMAIN S.users THEN S.users[id] ELSE NoUser

getUserByUsername(S, username) ==
    LET found == {k \in DOMAIN S.users : S.users[k].username = username}
    IN  IF found = {} THEN NoUser ELSE S.users[Min(found)]

createUser(S, username) ==
    LET id == S.userIdCounter
    IN  [S EXCEPT !.userIdCounter = id + 1,
                  !.users = MapSet(S.users, id, [id |-> id, username |-> username])]

getPlayer(S, id) == IF id \in DOMAIN S.players THEN S.players[id] ELSE NoPlayer

getTokenHolding(S, userId, playerId) ==
    LET found == {k \in DOMAIN S.tokenHoldings :
                    /\ S.tokenHoldings[k].userId = userId
                    /\ S.tokenHoldings[k].playerId = playerId}
    IN  IF found = {} THEN NoHolding ELSE S.tokenHoldings[Min(found)]

\* createTokenHolding with isStaked defaulting to true
createTokenHoldingStaked(S, userId, playerId, amount, purchasePrice) ==
    LET id == S.tokenHoldingIdCounter
        holding == [id |-> id, userId |-> userId, playerId |-> playerId,
                    amount |-> amount, purchasePrice |-> purchasePrice,
                    isStaked |-> TRUE, stakingPlan |-> NoPlan,
                    stakingStart |-> NoDate, stakingEnd |-> NoDate]
    IN  [S EXCEPT !.tokenHoldingIdCounter = id + 1,
                  !.tokenHoldings = MapSet(S.tokenHoldings, id, holding)]

\* createTokenHolding({userId, playerId, amount, purchasePrice}): isStaked and
\* the staking fields are never given by a caller and take their defaults
createTokenHolding(S, userId, playerId, amount, purchasePrice) ==
    LET id == S.tokenHoldingIdCounter
        holding == [id |-> id, userId |-> userId, playerId |-> playerId,
                    amount |-> amount, purchasePrice |-> purchasePrice,
                    isStaked |-> FALSE, stakingPlan |-> NoPlan,
                    stakingStart |-> NoDate, stakingEnd |-> NoDate]
    IN  [S EXCEPT !.tokenHoldingIdCounter = id + 1,
                  !.tokenHoldings = MapSet(S.tokenHoldings, id, holding)]

\* { ...holding, ...updates }
Merge(rec, updates) ==
    [f \in DOMAIN rec |-> IF f \in DOMAIN updates THEN updates[f] ELSE rec[f]]

\* updateTokenHolding(id, updates): the caller has checked HoldingKnown, the
\* method throws otherwise
HoldingKnown(S, id) == id \in DOMAIN S.tokenHoldings

updateTokenHolding(S, id, updates) ==
    [S EXCEPT !.tokenHoldings =
        MapSet(S.tokenHoldings, id, Merge(S.tokenHoldings[id], updates))]

\* createTransaction dropping fromPlayerId
createTransactionNoSource(S, userId, playerId, type, amount, price, fromPlayerId, t) ==
    LET id == S.transactionIdCounter
        transaction == [id |-> id, userId |-> userId, playerId |-> playerId,
                        type |-> type, amount |-> amount, price |-> price,
                        timestamp |-> t, fromPlayerId |-> NoId]
    IN  [S EXCEPT !.transactionIdCounter = id + 1,
                  !.transactions = MapSet(S.transactions, id, transaction)]

\* createTransaction writing over the last transaction of the log
createTransactionOverLast(S, userId, playerId, type, amount, price, fromPlayerId, t) ==
    LET id == IF DOMAIN S.transactions = {} THEN S.transactionIdCounter
              ELSE S.transactionIdCounter - 1
        transaction == [id |-> id, userId |-> userId, playerId |-> playerId,
                        type |-> type, amount |-> amount, price |-> price,
                        timestamp |-> t, fromPlayerId |-> fromPlayerId]
    IN  [S EXCEPT !.transactionIdCounter = S.transactionIdCounter + 1,
                  !.transactions = MapSet(S.transactions, id, transaction)]

\* createTransaction taking the tokens bought out of the player's
\* availableSupply
createTransactionFromSupply(S, userId, playerId, type, amount, price, fromPlayerId, t) ==
    LET id == S.transactionIdCounter
        transaction == [id |-> id, userId |-> userId, playerId |-> playerId,
                        type |-> type, amount |-> amount, price |-> price,
                        timestamp |-> t, fromPlayerId |-> fromPlayerId]
    IN  [S EXCEPT !.transactionIdCounter = id + 1,
                  !.transactions = MapSet(S.transactions, id, transaction),
                  !.players = IF type = "buy"
                              THEN [@ EXCEPT ![playerId].availableSupply = @ - amount]
                              ELSE @]

createTransaction(S, userId, playerId, type, amount, price, fromPlayerId, t) ==
    LET id == S.transactionIdCounter
        transaction == [id |-> id, userId |-> userId, playerId |-> playerId,
                        type |-> type, amount |-> amount, price |-> price,
                        timestamp |-> t, fromPlayerId |-> fromPlayerId]
    IN  [S EXCEPT !.transactionIdCounter = id + 1,
                  !.transactions = MapSet(S.transactions, id, transaction)]

\* getUserTokens: the ids of the user's holdings; it throws when a holding's
\* player is not in the store
UserTokenIds(S, userId) ==
    {k \in DOMAIN S.tokenHoldings : S.tokenHoldings[k].userId = userId}

UserTokensOk(S, userId) ==
    \A k \in UserTokenIds(S, userId) :
        S.tokenHoldings[k].playerId \in DOMAIN S.players

\* getUserPortfolio: the terms of totalValue, one per holding in Map order:
\* the amount and the tokenPrice whose product is added to the sum
RECURSIVE ValueTerms(_, _)
ValueTerms(S, ids) ==
    IF ids = {} THEN <<>>
    ELSE LET k == Min(ids)
             token == S.tokenHoldings[k]
         IN  <<[amount |-> token.amount,
                tokenPrice |-> S.players[token.playerId].tokenPrice]>>
             \o ValueTerms(S, ids \ {k})

PortfolioTotalValue(S, userId) == ValueTerms(S, UserTokenIds(S, userId))

\* the price updates of the model: player and new price, in cents
PriceRequests == {<<1, 100>>}

\* Number(token.amount) * Number(token.player.tokenPrice)
TokenArithmetic(amount, tokenPrice) == DTimesInt(NumberOfDecimal(tokenPrice), amount)

\* the amounts that the admin's holdings mostly have and the prices of the
\* model, and what TokenArithmetic makes of them, worked out once
TokenOperands ==
    {1, 2, 7, 57, 60, 110, 142, 195} \X ({PlayerSeed[i].tokenPrice : i \in DOMAIN PlayerSeed}
                     \cup {q[2] : q \in PriceRequests})

TokenTable == [x \in TokenOperands |-> TokenArithmetic(x[1], x[2])]

TokenValue(amount, tokenPrice) ==
    IF <<amount, tokenPrice>> \in TokenOperands
    THEN TokenTable[<<amount, tokenPrice>>]
    ELSE TokenArithmetic(amount, tokenPrice)

\* the binary64 that the terms sum to: totalValue += tokenValue, from the
\* total acc of the terms before the i-th (0 + x is x)
RECURSIVE TotalValueFrom(_, _, _)
TotalValueFrom(terms, i, acc) ==
    IF i > Len(terms) THEN acc
    ELSE IF acc.s = 0
    THEN TotalValueFrom(terms, i + 1, TokenValue(terms[i].amount, terms[i].tokenPrice))
    ELSE TotalValueFrom(terms, i + 1,
             DAdd(acc, TokenValue(terms[i].amount, terms[i].tokenPrice)))

TotalArithmetic(terms) == TotalValueFrom(terms, 1, DZero)

\* the terms of the admin's portfolio with a1 tokens of player 1 at price
\* p1, a5 tokens of player 5 and 60 tokens of every other player
AdminTerms(a1, p1, a5) ==
    [i \in DOMAIN PlayerSeed |->
        [amount |-> IF i = 1 THEN a1 ELSE IF i = 5 THEN a5 ELSE 60,
         tokenPrice |-> IF i = 1 THEN p1 ELSE PlayerSeed[i].tokenPrice]]

\* the portfolios that the admin mostly has, and what TotalArithmetic makes
\* of them, worked out once
TotalOperands ==
    {AdminTerms(x[1], x[2], x[3]) :
        x \in {7, 57, 60, 110, 142, 195} \X ({PlayerSeed[1].tokenPrice} \cup {q[2] : q \in PriceRequests})
               \X {7, 60}}

TotalTable == [x \in TotalOperands |-> TotalArithmetic(x)]

TotalValue(terms) ==
    IF terms \in TotalOperands THEN TotalTable[terms] ELSE TotalArithmetic(terms)

\* the sum of the amounts of the holdings ids
RECURSIVE SumAmounts(_, _)
SumAmounts(S, ids) ==
    IF ids = {} THEN 0
    ELSE LET k == Min(ids)
         IN  S.tokenHoldings[k].amount + SumAmounts(S, ids \ {k})

\* the user's holdings of players of the sport
SportTokenIds(S, userId, sport) ==
    {k \in UserTokenIds(S, userId) :
        S.players[S.tokenHoldings[k].playerId].sport = sport}

\* getUserPortfolio: nbaTokens and nflTokens
nbaTokens(S, userId) == SumAmounts(S, SportTokenIds(S, userId, "NBA"))

nflTokens(S, userId) == SumAmounts(S, SportTokenIds(S, userId, "NFL"))

\* stakedTokens counting the staked holdings instead of their tokens
stakedTokensHoldings(S, userId) ==
    Cardinality({k \in UserTokenIds(S, userId) : S.tokenHoldings[k].isStaked})

\* getUserPortfolio: stakedTokens
stakedTokens(S, userId) ==
    SumAmounts(S, {k \in UserTokenIds(S, userId) : S.tokenHoldings[k].isStaked})

\* updatePortfolioHistory; the totalValue stored is a binary64 printed by
\* toString(), kept here as the terms that sum to it (TotalValue evaluates them)
updatePortfolioHistory(S, userId, totalValue, t) ==
    LET id == S.portfolioHistoryIdCounter
        history == [id |-> id, userId |-> userId, totalValue |-> totalValue,
                    timestamp |-> t]
    IN  [S EXCEPT !.portfolioHistoryIdCounter = id + 1,
                  !.portfolioHistory = MapSet(S.portfolioHistory, id, history)]

\* updatePlayerPrice(id, newPrice, priceChange): tokenPrice becomes
\* String(newPrice), newPrice being the number that a price in cents denotes;
\* the method throws, and writes nothing, for an unknown player
updatePlayerPrice(S, id, newPrice) ==
    IF getPlayer(S, id).id = NoId THEN S
    ELSE [S EXCEPT !.players =
             MapSet(S.players, id, [S.players[id] EXCEPT !.tokenPrice = newPrice])]

NoAchievement == [id |-> NoId, requirement |-> "", requirementValue |-> 0]

getAchievement(S, id) ==
    IF id \in DOMAIN S.achievements THEN S.achievements[id] ELSE NoAchievement

\* getUserTransactions: the ids of the user's transactions; it throws when a
\* transaction's player is not in the store
UserTransactionIds(S, userId) ==
    {k \in DOMAIN S.transactions : S.transactions[k].userId = userId}

UserTransactionsOk(S, userId) ==
    \A k \in UserTransactionIds(S, userId) :
        S.transactions[k].playerId \in DOMAIN S.players

\* Array.from(this.userAchievements.values()).find(...): the position in the
\* Map of the first record of the user and the achievement, 0 when none
FindUserAchievement(S, userId, achievementId) ==
    LET found == {i \in 1..Len(S.userAchievements) :
                    /\ S.userAchievements[i].userId = userId
                    /\ S.userAchievements[i].achievementId = achievementId}
    IN  IF found = {} THEN 0 ELSE Min(found)

\* the position in the Map of the record with the id: the object that a
\* caller holds a reference to
PositionOf(S, id) ==
    CHOOSE i \in 1..Len(S.userAchievements) : S.userAchievements[i].id = id

NewUserAchievement(id, userId, achievementId, progress, t) ==
    [id |-> id, userId |-> userId, achievementId |-> achievementId,
     completed |-> FALSE, progress |-> progress, completedAt |-> NoDate,
     createdAt |-> t]

\* the loop giving each record the counter's value and leaving the counter
RECURSIVE CreateMissingCounterKept(_, _, _, _)
CreateMissingCounterKept(S, userId, ids, t) ==
    IF ids = {} THEN S
    ELSE LET a == Min(ids)
             id == S.userAchievementIdCounter
         IN  CreateMissingCounterKept(
                 [S EXCEPT !.userAchievements =
                               Append(@, NewUserAchievement(id, userId, a, 0, t))],
                 userId, ids \ {a}, t)

\* getUserAchievements, the loop over missingAchievements: a record with
\* progress 0 for each achievement in ids, in the order of the achievements
RECURSIVE CreateMissing(_, _, _, _)
CreateMissing(S, userId, ids, t) ==
    IF ids = {} THEN S
    ELSE LET a == Min(ids)
             id == S.userAchievementIdCounter
         IN  CreateMissing(
                 [S EXCEPT !.userAchievementIdCounter = id + 1,
                           !.userAchievements =
                               Append(@, NewUserAchievement(id, userId, a, 0, t))],
                 userId, ids \ {a}, t)

\* getUserAchievements, after its await of getAchievements
getUserAchievements(S, userId, t) ==
    CreateMissing(S, userId,
                  {a \in DOMAIN S.achievements : FindUserAchievement(S, userId, a) = 0},
                  t)

\* a new record completed only when the progress is past the requirement
CompletedPastRequirement(ua, requirementValue, t) ==
    IF ua.progress > requirementValue
    THEN [ua EXCEPT !.completed = TRUE, !.completedAt = t]
    ELSE ua

\* updateUserAchievementProgress on a new record: completed when the progress
\* has reached the requirement
Completed(ua, requirementValue, t) ==
    IF ua.progress >= requirementValue
    THEN [ua EXCEPT !.completed = TRUE, !.completedAt = t]
    ELSE ua

\* the update storing the progress it is given, higher or not
ProgressOverwritten(ua, progress, requirementValue, t) ==
    [ua EXCEPT !.progress = progress,
               !.completed = @ \/ progress >= requirementValue,
               !.completedAt = IF ~ua.completed /\ progress >= requirementValue
                               THEN t ELSE @]

\* the update dating the completion again each time the progress rises
ProgressCompletedAgain(ua, progress, requirementValue, t) ==
    IF progress > ua.progress
    THEN [ua EXCEPT !.progress = progress,
                    !.completed = @ \/ progress >= requirementValue,
                    !.completedAt = IF progress >= requirementValue THEN t ELSE @]
    ELSE ua

\* the update adding the progress it is given to the progress stored
ProgressAccumulated(ua, progress, requirementValue, t) ==
    IF progress > 0
    THEN [ua EXCEPT !.progress = @ + progress,
                    !.completed = @ \/ ua.progress + progress >= requirementValue,
                    !.completedAt = IF ~ua.completed
                                       /\ ua.progress + progress >= requirementValue
                                    THEN t ELSE @]
    ELSE ua

\* updateUserAchievementProgress on the record there is: the record after it
ProgressApplied(ua, progress, requirementValue, t) ==
    IF progress > ua.progress
    THEN [ua EXCEPT !.progress = progress,
                    !.completed = @ \/ progress >= requirementValue,
                    !.completedAt = IF ~ua.completed /\ progress >= requirementValue
                                    THEN t ELSE @]
    ELSE ua

\* checkAndUpdateAchievements: what it counts in the user's transactions
TransactionCounts(S, userId) ==
    [type \in {"buy", "sell", "swap"} |->
        Cardinality({k \in UserTransactionIds(S, userId) : S.transactions[k].type = type})]
    @@ ("all" :> Cardinality(UserTransactionIds(S, userId)))

\* and in the user's holdings
HoldingCounts(S, userId) ==
    [different_players |->
        Cardinality({S.tokenHoldings[k].playerId : k \in UserTokenIds(S, userId)}),
     nba_players |-> Cardinality(SportTokenIds(S, userId, "NBA")),
     nfl_players |-> Cardinality(SportTokenIds(S, userId, "NFL")),
     staked_tokens |->
        Cardinality({k \in UserTokenIds(S, userId) : S.tokenHoldings[k].isStaked})]

\* the requirements that the switch of checkAndUpdateAchievements knows
Requirements ==
    {"total_transactions", "total_buys", "total_sells", "total_swaps", "total_value",
     "different_players", "nba_players", "nfl_players", "staked_tokens"}

\* the progress for a requirement, from what handler h has read
Progress(h, requirement) ==
    CASE requirement = "total_transactions" -> h.transactions["all"]
      [] requirement = "total_buys"         -> h.transactions["buy"]
      [] requirement = "total_sells"        -> h.transactions["sell"]
      [] requirement = "total_swaps"        -> h.transactions["swap"]
      [] requirement = "total_value"        -> DFloor(h.value)
      [] OTHER                              -> h.holdings[requirement]

(***************************************************************************)
(* The requests of the model.  Users 1 (admin) and 2 exist, user 3 does    *)
(* not; players 1 (NBA, 2.65) and 5 (NFL, 2.55) exist, player 12 does not; *)
(* plans 1 to 3 exist, plan 4 does not.  Amount 53 is the least amount for *)
(* which the swap of player 5 for player 1 rounds.                         *)
(***************************************************************************)
BuyRequests ==
    ({1, 2} \X {1, 5} \X {-1, 1, 53} \X {250})
    \cup {<<3, 1, 1, 250>>, <<1, 12, 1, 250>>, <<1, 1, 0, 250>>, <<1, 1, 1, 0>>}

SellRequests ==
    ({1, 2} \X {1, 5} \X {-1, 1, 53} \X {250})
    \cup {<<3, 1, 1, 250>>, <<1, 12, 1, 250>>, <<1, 1, 0, 250>>, <<1, 1, 1, 0>>}

SwapRequests ==
    ({1, 2} \X {1, 5} \X {1, 5} \X {1, 53})
    \cup {<<3, 1, 5, 1>>, <<1, 12, 1, 1>>, <<1, 1, 12, 1>>, <<1, 1, 5, 0>>,
          <<1, 1, 5, -1>>}

StakeRequests ==
    ({1, 2} \X {1, 5} \X {1, 53} \X {1, 2})
    \cup {<<3, 1, 53, 1>>, <<1, 12, 53, 1>>, <<1, 1, 53, 3>>, <<1, 1, 53, 4>>,
          <<1, 1, 0, 1>>, <<1, 1, -1, 1>>}

UnstakeRequests == ({1, 2} \X {1, 5}) \cup {<<3, 1>>, <<1, 12>>}

\* the users whose achievements are read and checked
AchievementRequests == {1, 3}

\* the users whose achievements are read: user 2's are read and never checked
ReadRequests == AchievementRequests \cup {2}

\* the requests made between the checks of the achievements
AchBuyRequests     == {<<2, 1, 1, 250>>}
AchSellRequests    == {<<1, 1, 53, 250>>}
AchSwapRequests    == {<<1, 5, 1, 53>>}
AchStakeRequests   == {<<1, 1, 53, 1>>}
AchUnstakeRequests == {<<1, 1>>}

\* the requests made while others are in flight
ConcBuyRequests     == {<<2, 1, 1, 250>>, <<1, 1, 1, 250>>}
ConcSellRequests    == {<<1, 1, 1, 250>>}
ConcSwapRequests    == {<<1, 5, 1, 53>>}
ConcStakeRequests   == {<<1, 1, 53, 1>>}
ConcUnstakeRequests == {<<1, 1>>}
ConcAchievementRequests == {1}

(***************************************************************************)
(* The request handlers of routes.ts.  A handler is a record h: the        *)
(* request's body, the handler's local variables, and pc, the await it is  *)
(* suspended at.  A step runs the handler from one await to the next: the  *)
(* storage method it awaits has no await of its own before it reads or     *)
(* writes the Maps, so the read or write belongs to the step that makes    *)
(* the call, and the handler resumes with the result in a later step.      *)
(***************************************************************************)
NewHandler(op, userId, playerId, toPlayerId, amount, price, planId) ==
    [op |-> op, pc |-> "start", status |-> 0,
     userId |-> userId, playerId |-> playerId, toPlayerId |-> toPlayerId,
     amount |-> amount, price |-> price, planId |-> planId,
     user |-> NoUser, player |-> NoPlayer, toPlayer |-> NoPlayer,
     holding |-> NoHolding, toAmount |-> 0, totalValue |-> <<>>,
     transactions |-> <<>>, holdings |-> <<>>, value |-> DZero,
     index |-> 0, progress |-> 0,
     found |-> NoId, fresh |-> <<>>, updated |-> <<>>, result |-> <<>>]

\* res.status(status).json(...)
Respond(S, h, status) == [S |-> S, h |-> [h EXCEPT !.pc = "done", !.status = status]]

Await(S, h, pc) == [S |-> S, h |-> [h EXCEPT !.pc = pc]]

\* the end of buy, sell and swap: the portfolio snapshot, then the response
SnapshotStep(S, h, t, status) ==
    CASE h.pc = "createTransaction" ->
            IF ~UserTokensOk(S, h.userId) THEN Respond(S, h, 500)
            ELSE Await(S, [h EXCEPT !.totalValue = PortfolioTotalValue(S, h.userId)],
                       "getUserPortfolio")
      [] h.pc = "getUserPortfolio" ->
            Respond(updatePortfolioHistory(S, h.userId, h.totalValue, t), h, status)

\* buy setting the amount of the holding it found to the amount bought
BuyStepReplacing(S, h, t) ==
    CASE h.pc = "start" ->
            IF h.userId = 0 \/ h.playerId = 0 \/ h.amount = 0 \/ h.price = 0
            THEN Respond(S, h, 400)
            ELSE Await(S, [h EXCEPT !.player = getPlayer(S, h.playerId)], "getPlayer")
      [] h.pc = "getPlayer" ->
            IF h.player.id = NoId THEN Respond(S, h, 404)
            ELSE Await(S, [h EXCEPT !.user = getUser(S, h.userId)], "getUser")
      [] h.pc = "getUser" ->
            IF h.user.id = NoId THEN Respond(S, h, 404)
            ELSE Await(S, [h EXCEPT !.holding = getTokenHolding(S, h.userId, h.playerId)],
                       "getTokenHolding")
      [] h.pc = "getTokenHolding" ->
            IF h.holding.id /= NoId
            THEN IF ~HoldingKnown(S, h.holding.id) THEN Respond(S, h, 500)
                 ELSE Await(updateTokenHolding(S, h.holding.id,
                                [amount |-> h.amount, purchasePrice |-> h.price]),
                            h, "writeHolding")
            ELSE Await(createTokenHolding(S, h.userId, h.playerId, h.amount, h.price),
                       h, "writeHolding")
      [] h.pc = "writeHolding" ->
            Await(createTransaction(S, h.userId, h.playerId, "buy", h.amount, h.price,
                                    NoId, t),
                  h, "createTransaction")
      [] OTHER -> SnapshotStep(S, h, t, 201)

\* buy adding to the amount that the holding has when it is written
BuyStepRereading(S, h, t) ==
    CASE h.pc = "start" ->
            IF h.userId = 0 \/ h.playerId = 0 \/ h.amount = 0 \/ h.price = 0
            THEN Respond(S, h, 400)
            ELSE Await(S, [h EXCEPT !.player = getPlayer(S, h.playerId)], "getPlayer")
      [] h.pc = "getPlayer" ->
            IF h.player.id = NoId THEN Respond(S, h, 404)
            ELSE Await(S, [h EXCEPT !.user = getUser(S, h.userId)], "getUser")
      [] h.pc = "getUser" ->
            IF h.user.id = NoId THEN Respond(S, h, 404)
            ELSE Await(S, [h EXCEPT !.holding = getTokenHolding(S, h.userId, h.playerId)],
                       "getTokenHolding")
      [] h.pc = "getTokenHolding" ->
            IF h.holding.id /= NoId
            THEN IF ~HoldingKnown(S, h.holding.id) THEN Respond(S, h, 500)
                 ELSE Await(updateTokenHolding(S, h.holding.id,
                                [amount |-> S.tokenHoldings[h.holding.id].amount + h.amount,
                                 purchasePrice |-> h.price]),
                            h, "writeHolding")
            ELSE Await(createTokenHolding(S, h.userId, h.playerId, h.amount, h.price),
                       h, "writeHolding")
      [] h.pc = "writeHolding" ->
            Await(createTransaction(S, h.userId, h.playerId, "buy", h.amount, h.price,
                                    NoId, t),
                  h, "createTransaction")
      [] OTHER -> SnapshotStep(S, h, t, 201)

\* POST /api/transactions/buy
BuyStep(S, h, t) ==
    CASE h.pc = "start" ->
            IF h.userId = 0 \/ h.playerId = 0 \/ h.amount = 0 \/ h.price = 0
            THEN Respond(S, h, 400)
            ELSE Await(S, [h EXCEPT !.player = getPlayer(S, h.playerId)], "getPlayer")
      [] h.pc = "getPlayer" ->
            IF h.player.id = NoId THEN Respond(S, h, 404)
            ELSE Await(S, [h EXCEPT !.user = getUser(S, h.userId)], "getUser")
      [] h.pc = "getUser" ->
            IF h.user.id = NoId THEN Respond(S, h, 404)
            ELSE Await(S, [h EXCEPT !.holding = getTokenHolding(S, h.userId, h.playerId)],
                       "getTokenHolding")
      [] h.pc = "getTokenHolding" ->
            IF h.holding.id /= NoId
            THEN IF ~HoldingKnown(S, h.holding.id) THEN Respond(S, h, 500)
                 ELSE Await(updateTokenHolding(S, h.holding.id,
                                [amount |-> h.holding.amount + h.amount,
                                 purchasePrice |-> h.price]),
                            h, "writeHolding")
            ELSE Await(createTokenHolding(S, h.userId, h.playerId, h.amount, h.price),
                       h, "writeHolding")
      [] h.pc = "writeHolding" ->
            Await(createTransaction(S, h.userId, h.playerId, "buy", h.amount, h.price,
                                    NoId, t),
                  h, "createTransaction")
      [] OTHER -> SnapshotStep(S, h, t, 201)

\* sell without its check that the holding is not staked
SellRejectionStakedSold(holding, amount) ==
    IF holding.id = NoId THEN 404
    ELSE IF holding.amount < amount THEN 400
    ELSE 0

\* sell refusing to sell the whole holding
SellRejectionAllButOne(holding, amount) ==
    IF holding.id = NoId THEN 404
    ELSE IF holding.amount <= amount THEN 400
    ELSE IF holding.isStaked THEN 400
    ELSE 0

\* the checks of sell on the holding it read: the status of the rejection,
\* 0 when the sale goes on
SellRejection(holding, amount) ==
    IF holding.id = NoId THEN 404
    ELSE IF holding.amount < amount THEN 400
    ELSE IF holding.isStaked THEN 400
    ELSE 0

\* POST /api/transactions/sell
SellStep(S, h, t) ==
    CASE h.pc = "start" ->
            IF h.userId = 0 \/ h.playerId = 0 \/ h.amount = 0 \/ h.price = 0
            THEN Respond(S, h, 400)
            ELSE Await(S, [h EXCEPT !.holding = getTokenHolding(S, h.userId, h.playerId)],
                       "getTokenHolding")
      [] h.pc = "getTokenHolding" ->
            IF SellRejection(h.holding, h.amount) /= 0
            THEN Respond(S, h, SellRejection(h.holding, h.amount))
            ELSE IF ~HoldingKnown(S, h.holding.id) THEN Respond(S, h, 500)
            ELSE Await(updateTokenHolding(S, h.holding.id,
                           [amount |-> h.holding.amount - h.amount]),
                       h, "writeHolding")
      [] h.pc = "writeHolding" ->
            Await(createTransaction(S, h.userId, h.playerId, "sell", h.amount, h.price,
                                    NoId, t),
                  h, "createTransaction")
      [] OTHER -> SnapshotStep(S, h, t, 200)

\* Math.floor(Number(fromPrice) * amount / Number(toPrice))
SwapArithmetic(amount, fromPrice, toPrice) ==
    DFloor(DDiv(DTimesInt(NumberOfDecimal(fromPrice), amount), NumberOfDecimal(toPrice)))

\* the amounts and prices that the swap requests of the model bring together,
\* and what SwapArithmetic makes of them, worked out once
SwapOperands ==
    {<<q[4], PlayerSeed[q[2]].tokenPrice, PlayerSeed[q[3]].tokenPrice>> :
        q \in {x \in SwapRequests \cup ConcSwapRequests :
                  x[2] \in DOMAIN PlayerSeed /\ x[3] \in DOMAIN PlayerSeed}}
    \cup {<<z[1][4], PlayerSeed[z[1][2]].tokenPrice, z[2][2]>> :
            z \in {y \in AchSwapRequests \X PriceRequests : y[2][1] = y[1][3]}}

SwapTable == [x \in SwapOperands |-> SwapArithmetic(x[1], x[2], x[3])]

SwapAmount(amount, fromPrice, toPrice) ==
    IF <<amount, fromPrice, toPrice>> \in SwapOperands
    THEN SwapTable[<<amount, fromPrice, toPrice>>]
    ELSE SwapArithmetic(amount, fromPrice, toPrice)

\* swap without its check that the source holding is not staked
SwapRejectionStakedSwapped(fromHolding, amount) ==
    IF fromHolding.id = NoId THEN 404
    ELSE IF fromHolding.amount < amount THEN 400
    ELSE 0

\* the checks of swap on the source holding it read: the status of the
\* rejection, 0 when the swap goes on
SwapRejection(fromHolding, amount) ==
    IF fromHolding.id = NoId THEN 404
    ELSE IF fromHolding.amount < amount THEN 400
    ELSE IF fromHolding.isStaked THEN 400
    ELSE 0

\* POST /api/transactions/swap; playerId is fromPlayerId
SwapStep(S, h, t) ==
    CASE h.pc = "start" ->
            IF h.userId = 0 \/ h.playerId = 0 \/ h.toPlayerId = 0 \/ h.amount = 0
            THEN Respond(S, h, 400)
            ELSE Await(S, [h EXCEPT !.holding = getTokenHolding(S, h.userId, h.playerId)],
                       "getTokenHolding")
      [] h.pc = "getTokenHolding" ->
            IF SwapRejection(h.holding, h.amount) /= 0
            THEN Respond(S, h, SwapRejection(h.holding, h.amount))
            ELSE Await(S, [h EXCEPT !.player = getPlayer(S, h.playerId)], "getPlayer")
      [] h.pc = "getPlayer" ->
            Await(S, [h EXCEPT !.toPlayer = getPlayer(S, h.toPlayerId)], "getToPlayer")
      [] h.pc = "getToPlayer" ->
            IF h.player.id = NoId \/ h.toPlayer.id = NoId THEN Respond(S, h, 404)
            ELSE LET toAmount == SwapAmount(h.amount, h.player.tokenPrice,
                                            h.toPlayer.tokenPrice)
                 IN  IF toAmount <= 0 THEN Respond(S, h, 400)
                     ELSE IF ~HoldingKnown(S, h.holding.id) THEN Respond(S, h, 500)
                     ELSE Await(updateTokenHolding(S, h.holding.id,
                                    [amount |-> h.holding.amount - h.amount]),
                                [h EXCEPT !.toAmount = toAmount], "updateTokenHolding")
      [] h.pc = "updateTokenHolding" ->
            Await(S, [h EXCEPT !.holding = getTokenHolding(S, h.userId, h.toPlayerId)],
                  "getToHolding")
      [] h.pc = "getToHolding" ->
            IF h.holding.id /= NoId
            THEN IF ~HoldingKnown(S, h.holding.id) THEN Respond(S, h, 500)
                 ELSE Await(updateTokenHolding(S, h.holding.id,
                                [amount |-> h.holding.amount + h.toAmount]),
                            h, "writeHolding")
            ELSE Await(createTokenHolding(S, h.userId, h.toPlayerId, h.toAmount,
                                          h.toPlayer.tokenPrice),
                       h, "writeHolding")
      [] h.pc = "writeHolding" ->
            Await(createTransaction(S, h.userId, h.toPlayerId, "swap", h.toAmount,
                                    h.toPlayer.tokenPrice, h.playerId, t),
                  h, "createTransaction")
      [] OTHER -> SnapshotStep(S, h, t, 200)

\* the end of stake and unstake: the player lookup, the transaction, the response
StakeTail(S, h, t, type, amount) ==
    CASE h.pc = "updateTokenHolding" ->
            Await(S, [h EXCEPT !.player = getPlayer(S, h.playerId)], "getPlayer")
      [] h.pc = "getPlayer" ->
            IF h.player.id = NoId THEN Respond(S, h, 404)
            ELSE Await(createTransaction(S, h.userId, h.playerId, type, amount,
                                         h.player.tokenPrice, NoId, t),
                       h, "createTransaction")
      [] h.pc = "createTransaction" -> Respond(S, h, 200)

\* stakeTokens without its check of the plan's minTokens
StakeRejectionNoMinimum(S, holding, amount, planId) ==
    IF holding.id = NoId THEN 400
    ELSE IF planId \notin DOMAIN S.stakingPlans THEN 400
    ELSE IF amount > holding.amount THEN 400
    ELSE 0

\* the throws of stakeTokens on the holding it read, each answered 400 by the
\* route; 0 when the staking goes on
StakeRejection(S, holding, amount, planId) ==
    IF holding.id = NoId THEN 400
    ELSE IF planId \notin DOMAIN S.stakingPlans THEN 400
    ELSE IF amount > holding.amount THEN 400
    ELSE IF amount < S.stakingPlans[planId].minTokens THEN 400
    ELSE 0

\* MemStorage.stakeTokens, after its await of getTokenHolding
stakeTokens(S, h, t) ==
    IF StakeRejection(S, h.holding, h.amount, h.planId) /= 0
    THEN Respond(S, h, StakeRejection(S, h.holding, h.amount, h.planId))
    ELSE LET plan == S.stakingPlans[h.planId]
         IN  IF ~HoldingKnown(S, h.holding.id) THEN Respond(S, h, 400)
             ELSE LET S2 == updateTokenHolding(S, h.holding.id,
                                [isStaked |-> TRUE, stakingPlan |-> plan.name,
                                 stakingStart |-> t,
                                 stakingEnd |-> t + plan.lockPeriodDays])
                  IN  Await(S2, [h EXCEPT !.holding = S2.tokenHoldings[h.holding.id]],
                            "updateTokenHolding")

\* POST /api/staking/stake
StakeStep(S, h, t) ==
    CASE h.pc = "start" ->
            IF h.userId = 0 \/ h.playerId = 0 \/ h.amount = 0 \/ h.planId = 0
            THEN Respond(S, h, 400)
            ELSE Await(S, [h EXCEPT !.holding = getTokenHolding(S, h.userId, h.playerId)],
                       "getTokenHolding")
      [] h.pc = "getTokenHolding" -> stakeTokens(S, h, t)
      [] OTHER -> StakeTail(S, h, t, "stake", h.amount)

\* unstakeTokens rejecting the request made on the day the lock ends
unstakeTokensAfterEnd(S, h, t) ==
    IF h.holding.id = NoId THEN Respond(S, h, 400)
    ELSE IF ~h.holding.isStaked THEN Respond(S, h, 400)
    ELSE IF h.holding.stakingEnd /= NoDate /\ t <= h.holding.stakingEnd
         THEN Respond(S, h, 400)
    ELSE IF ~HoldingKnown(S, h.holding.id) THEN Respond(S, h, 400)
    ELSE LET S2 == updateTokenHolding(S, h.holding.id,
                       [isStaked |-> FALSE, stakingPlan |-> NoPlan,
                        stakingStart |-> NoDate, stakingEnd |-> NoDate])
         IN  Await(S2, [h EXCEPT !.holding = S2.tokenHoldings[h.holding.id]],
                   "updateTokenHolding")

\* unstakeTokens leaving the plan's name on the holding
unstakeTokensKeepingPlan(S, h, t) ==
    IF h.holding.id = NoId THEN Respond(S, h, 400)
    ELSE IF ~h.holding.isStaked THEN Respond(S, h, 400)
    ELSE IF h.holding.stakingEnd /= NoDate /\ t < h.holding.stakingEnd
         THEN Respond(S, h, 400)
    ELSE IF ~HoldingKnown(S, h.holding.id) THEN Respond(S, h, 400)
    ELSE LET S2 == updateTokenHolding(S, h.holding.id,
                       [isStaked |-> FALSE,
                        stakingStart |-> NoDate, stakingEnd |-> NoDate])
         IN  Await(S2, [h EXCEPT !.holding = S2.tokenHoldings[h.holding.id]],
                   "updateTokenHolding")

\* MemStorage.unstakeTokens, after its await of getTokenHolding
unstakeTokens(S, h, t) ==
    IF h.holding.id = NoId THEN Respond(S, h, 400)
    ELSE IF ~h.holding.isStaked THEN Respond(S, h, 400)
    ELSE IF h.holding.stakingEnd /= NoDate /\ t < h.holding.stakingEnd
         THEN Respond(S, h, 400)
    ELSE IF ~HoldingKnown(S, h.holding.id) THEN Respond(S, h, 400)
    ELSE LET S2 == updateTokenHolding(S, h.holding.id,
                       [isStaked |-> FALSE, stakingPlan |-> NoPlan,
                        stakingStart |-> NoDate, stakingEnd |-> NoDate])
         IN  Await(S2, [h EXCEPT !.holding = S2.tokenHoldings[h.holding.id]],
                   "updateTokenHolding")

\* POST /api/staking/unstake
UnstakeStep(S, h, t) ==
    CASE h.pc = "start" ->
            IF h.userId = 0 \/ h.playerId = 0 THEN Respond(S, h, 400)
            ELSE Await(S, [h EXCEPT !.holding = getTokenHolding(S, h.userId, h.playerId)],
                       "getTokenHolding")
      [] h.pc = "getTokenHolding" -> unstakeTokens(S, h, t)
      [] OTHER -> StakeTail(S, h, t, "unstake", h.holding.amount)

\* GET /api/achievements/:userId
AchievementsStep(S, h, t) ==
    CASE h.pc = "start" ->
            Await(S, [h EXCEPT !.user = getUser(S, h.userId)], "getUser")
      [] h.pc = "getUser" ->
            IF h.user.id = NoId THEN Respond(S, h, 404)
            ELSE Await(S, h, "getAchievements")
      [] h.pc = "getAchievements" ->
            Await(getUserAchievements(S, h.userId, t), h, "getUserAchievements")
      [] OTHER -> Respond(S, h, 200)

\* updateUserAchievementProgress up to its await of getAchievement: the
\* record is looked up, and a missing one is made, with the next id
FindStep(S, h, t, achievementId, progress) ==
    LET pos == FindUserAchievement(S, h.userId, achievementId)
    IN  IF pos = 0
        THEN Await([S EXCEPT !.userAchievementIdCounter = @ + 1],
                   [h EXCEPT !.found = NoId, !.progress = progress,
                             !.fresh = NewUserAchievement(S.userAchievementIdCounter,
                                           h.userId, achievementId, progress, t)],
                   "getAchievement")
        ELSE Await(S, [h EXCEPT !.found = S.userAchievements[pos].id,
                                !.progress = progress],
                   "getAchievement")

\* updateUserAchievementProgress after its await of getAchievement: the new
\* record is set, or the record found is updated where it is
ApplyStep(S, h, t, achievement) ==
    IF achievement.id = NoId THEN Respond(S, h, 500)
    ELSE IF h.found = NoId
    THEN Await([S EXCEPT !.userAchievements =
                    Append(@, Completed(h.fresh, achievement.requirementValue, t))],
               [h EXCEPT !.updated = Append(@, h.fresh.id), !.index = @ + 1],
               "updateUserAchievementProgress")
    ELSE Await([S EXCEPT !.userAchievements[PositionOf(S, h.found)] =
                    ProgressApplied(@, h.progress, achievement.requirementValue, t)],
               [h EXCEPT !.updated = Append(@, h.found), !.index = @ + 1],
               "updateUserAchievementProgress")

\* the records that checkAndUpdateAchievements returns, as they are when it
\* returns
Updated(S, h) ==
    [i \in 1..Len(h.updated) |->
        LET ua == S.userAchievements[PositionOf(S, h.updated[i])]
        IN  [achievementId |-> ua.achievementId, progress |-> ua.progress,
             completed |-> ua.completed, completedAt |-> ua.completedAt]]

\* checkAndUpdateAchievements, the loop over the achievements
LoopStep(S, h, t) ==
    IF h.index > Len(S.achievements)
    THEN Respond(S, [h EXCEPT !.result = Updated(S, h)], 200)
    ELSE IF S.achievements[h.index].requirement \notin Requirements
    THEN Await(S, [h EXCEPT !.index = @ + 1], "updateUserAchievementProgress")
    ELSE FindStep(S, h, t, h.index, Progress(h, S.achievements[h.index].requirement))

\* POST /api/achievements/:userId/check
CheckStep(S, h, t) ==
    CASE h.pc = "start" ->
            Await(S, [h EXCEPT !.user = getUser(S, h.userId)], "getUser")
      [] h.pc = "getUser" ->
            IF h.user.id = NoId THEN Respond(S, h, 404)
            ELSE IF ~UserTransactionsOk(S, h.userId) THEN Respond(S, h, 500)
            ELSE Await(S, [h EXCEPT !.transactions = TransactionCounts(S, h.userId)],
                       "getUserTransactions")
      [] h.pc = "getUserTransactions" ->
            IF ~UserTokensOk(S, h.userId) THEN Respond(S, h, 500)
            ELSE Await(S, [h EXCEPT !.holdings = HoldingCounts(S, h.userId)],
                       "getUserTokens")
      [] h.pc = "getUserTokens" ->
            IF ~UserTokensOk(S, h.userId) THEN Respond(S, h, 500)
            ELSE Await(S, [h EXCEPT !.value =
                                        TotalValue(PortfolioTotalValue(S, h.userId))],
                       "getUserPortfolio")
      [] h.pc = "getUserPortfolio" ->
            Await(S, [h EXCEPT !.index = 1], "getAchievements")
      [] h.pc = "getAchievement" -> ApplyStep(S, h, t, getAchievement(S, h.index))
      [] OTHER -> LoopStep(S, h, t)

(***************************************************************************)
(* The registration of users (auth.ts) and the set-up of the admin user    *)
(* that the constructor starts and does not await.  Both look the username *)
(* up, then await the password hash (scrypt, which runs outside the event  *)
(* loop), then create the user.                                            *)
(***************************************************************************)
RegisterHandler(username) ==
    [op |-> "register", pc |-> "start", status |-> 0,
     username |-> username, user |-> NoUser]

\* POST /api/register, POST /api/auth/register
RegisterStep(S, h, t) ==
    CASE h.pc = "start" ->
            Await(S, [h EXCEPT !.user = getUserByUsername(S, h.username)],
                  "getUserByUsername")
      [] h.pc = "getUserByUsername" ->
            IF h.user.id /= NoId THEN Respond(S, h, 400)
            ELSE Await(S, h, "hashPassword")
      [] h.pc = "hashPassword" ->
            Await(createUser(S, h.username),
                  [h EXCEPT !.user = [id |-> S.userIdCounter, username |-> h.username]],
                  "createUser")
      [] h.pc = "createUser" -> Respond(S, h, 201)

InitAdminHandler ==
    [op |-> "initAdminUser", pc |-> "start", status |-> 0,
     user |-> NoUser, players |-> <<>>, index |-> 0]

\* MemStorage.initAdminUser, from one await to the next
InitAdminStep(S, h, t) ==
    CASE h.pc = "start" ->
            Await(S, [h EXCEPT !.user = getUserByUsername(S, "admin")],
                  "getUserByUsername")
      [] h.pc = "getUserByUsername" ->
            IF h.user.id /= NoId THEN Respond(S, h, 0)
            ELSE Await(S, h, "scryptAsync")
      [] h.pc = "scryptAsync" ->
            Await(createUser(S, "admin"),
                  [h EXCEPT !.user = [id |-> S.userIdCounter, username |-> "admin"]],
                  "createUser")
      [] h.pc = "createUser" ->
            Await(S, [h EXCEPT !.players = S.players], "getPlayers")
      [] OTHER ->
            IF h.index = Len(h.players) THEN Respond(S, h, 0)
            ELSE Await(createTokenHolding(S, h.user.id, h.players[h.index + 1].id, 60,
                                          h.players[h.index + 1].tokenPrice),
                       [h EXCEPT !.index = @ + 1], "createTokenHolding")

\* one step of a handler: from its await to its next await or its response
Step(S, h, t) ==
    CASE h.op = "buy"     -> BuyStep(S, h, t)
      [] h.op = "sell"    -> SellStep(S, h, t)
      [] h.op = "swap"    -> SwapStep(S, h, t)
      [] h.op = "stake"   -> StakeStep(S, h, t)
      [] h.op = "unstake" -> UnstakeStep(S, h, t)
      [] h.op = "achievements" -> AchievementsStep(S, h, t)
      [] h.op = "check"   -> CheckStep(S, h, t)
      [] h.op = "register" -> RegisterStep(S, h, t)
      [] h.op = "initAdminUser" -> InitAdminStep(S, h, t)

\* a handler run from its start to its response with no other handler in
\* between: the store it leaves and the handler at its response
RECURSIVE Run(_, _, _)
Run(S, h, t) ==
    IF h.pc = "done" THEN [S |-> S, h |-> h]
    ELSE LET r == Step(S, h, t) IN Run(r.S, r.h, t)

(***************************************************************************)
(* The state after construction (new MemStorage()): the staking plans, the *)
(* players and the achievements; then initAdminUser, which makes the admin *)
(* user with 60 tokens of each player; then the registration of a second   *)
(* user, who holds nothing.  The requests of the model are made from there *)
(* on.                                                                     *)
(***************************************************************************)
Constructed ==
    [users |-> <<>>, userIdCounter |-> 1,
     players |-> [i \in 1..Len(PlayerSeed) |->
                    [id |-> i, sport |-> PlayerSeed[i].sport,
                     tokenPrice |-> PlayerSeed[i].tokenPrice,
                     totalSupply |-> PlayerSeed[i].totalSupply,
                     availableSupply |-> PlayerSeed[i].availableSupply]],
     playerIdCounter |-> Len(PlayerSeed) + 1,
     tokenHoldings |-> <<>>, tokenHoldingIdCounter |-> 1,
     transactions |-> <<>>, transactionIdCounter |-> 1,
     portfolioHistory |-> <<>>, portfolioHistoryIdCounter |-> 1,
     stakingPlans |-> [i \in 1..Len(PlanSeed) |->
                         [id |-> i, name |-> PlanSeed[i].name,
                          lockPeriodDays |-> PlanSeed[i].lockPeriodDays,
                          minTokens |-> PlanSeed[i].minTokens]],
     achievements |-> [i \in 1..Len(AchievementSeed) |->
                         [id |-> i, requirement |-> AchievementSeed[i].requirement,
                          requirementValue |-> AchievementSeed[i].requirementValue]],
     achievementIdCounter |-> Len(AchievementSeed) + 1,
     userAchievements |-> <<>>, userAchievementIdCounter |-> 1]

\* initAdminUser: 60 tokens of each player for the admin
RECURSIVE AdminHoldings(_, _, _)
AdminHoldings(S, adminId, ids) ==
    IF ids = {} THEN S
    ELSE LET k == Min(ids)
         IN  AdminHoldings(createTokenHolding(S, adminId, k, 60, S.players[k].tokenPrice),
                           adminId, ids \ {k})

initAdminUser(S) ==
    LET S1 == createUser(S, "admin")
    IN  AdminHoldings(S1, S.userIdCounter, DOMAIN S1.players)

\* POST /api/register (auth.ts): the user is created unless the name is taken
registerHandler(S, username) ==
    IF getUserByUsername(S, username).id /= NoId THEN S ELSE createUser(S, username)

Started == registerHandler(initAdminUser(Constructed), "bob")

Idle == [pc |-> "idle"]

Init ==
    /\ users = Started.users
    /\ userIdCounter = Started.userIdCounter
    /\ players = Started.players
    /\ playerIdCounter = Started.playerIdCounter
    /\ tokenHoldings = Started.tokenHoldings
    /\ tokenHoldingIdCounter = Started.tokenHoldingIdCounter
    /\ transactions = Started.transactions
    /\ transactionIdCounter = Started.transactionIdCounter
    /\ portfolioHistory = Started.portfolioHistory
    /\ portfolioHistoryIdCounter = Started.portfolioHistoryIdCounter
    /\ stakingPlans = Started.stakingPlans
    /\ achievements = Started.achievements
    /\ achievementIdCounter = Started.achievementIdCounter
    /\ userAchievements = Started.userAchievements
    /\ userAchievementIdCounter = Started.userAchievementIdCounter
    /\ now = 0
    /\ handlers = [i \in 1..NumHandlers |-> Idle]

BuyHandler(q)     == NewHandler("buy", q[1], q[2], NoId, q[3], q[4], NoId)
SellHandler(q)    == NewHandler("sell", q[1], q[2], NoId, q[3], q[4], NoId)
SwapHandler(q)    == NewHandler("swap", q[1], q[2], q[3], q[4], 0, NoId)
StakeHandler(q)   == NewHandler("stake", q[1], q[2], NoId, q[3], 0, q[4])
UnstakeHandler(q) == NewHandler("unstake", q[1], q[2], NoId, 0, 0, NoId)
AchievementsHandler(u) == NewHandler("achievements", u, NoId, NoId, 0, 0, NoId)
CheckHandler(u)   == NewHandler("check", u, NoId, NoId, 0, 0, NoId)

\* room in the transaction log for one more request
RoomForRequest == transactionIdCounter <= MaxTransactions

NoneInFlight == \A i \in 1..NumHandlers : handlers[i] = Idle

\* handler h run from start to response with no other handler in between:
\* the store it leaves (S) and the handler at its response (h)
Outcome(h) == Run(Store, h, now)

After(h) == Outcome(h).S

(***************************************************************************)
(* The requests made one at a time: each handler runs to its response      *)
(* before the next request arrives.                                        *)
(***************************************************************************)
Buy(q) ==
    /\ RoomForRequest
    /\ NoneInFlight
    /\ SetStore(After(BuyHandler(q)))
    /\ UNCHANGED <<now, handlers>>

Sell(q) ==
    /\ RoomForRequest
    /\ NoneInFlight
    /\ SetStore(After(SellHandler(q)))
    /\ UNCHANGED <<now, handlers>>

Swap(q) ==
    /\ RoomForRequest
    /\ NoneInFlight
    /\ SetStore(After(SwapHandler(q)))
    /\ UNCHANGED <<now, handlers>>

Stake(q) ==
    /\ RoomForRequest
    /\ NoneInFlight
    /\ SetStore(After(StakeHandler(q)))
    /\ UNCHANGED <<now, handlers>>

Unstake(q) ==
    /\ RoomForRequest
    /\ NoneInFlight
    /\ SetStore(After(UnstakeHandler(q)))
    /\ UNCHANGED <<now, handlers>>

\* the clock moves on
Tick ==
    /\ now + TickDays <= MaxNow
    /\ now' = now + TickDays
    /\ UNCHANGED <<storeVars, handlers>>

Next ==
    \/ \E q \in BuyRequests : Buy(q)
    \/ \E q \in SellRequests : Sell(q)
    \/ \E q \in SwapRequests : Swap(q)
    \/ \E q \in StakeRequests : Stake(q)
    \/ \E q \in UnstakeRequests : Unstake(q)
    \/ Tick

Spec == Init /\ [][Next]_vars

(***************************************************************************)
(* The requests made while others are in flight.  Node runs one handler at *)
(* a time, and only up to its next await: the handlers of requests that    *)
(* have arrived take turns, in any order, each turn one step.  A request   *)
(* that arrives runs its first step at once.                               *)
(***************************************************************************)
InFlight == Cardinality({i \in 1..NumHandlers : handlers[i] /= Idle})

\* room in the transaction log for the requests in flight and one more
RoomForArrival == transactionIdCounter + InFlight <= MaxTransactions

\* handler h takes its turn in slot i: one step, and the slot is free again
\* once it has responded
Turn(i, h) ==
    LET r == Step(Store, h, now)
    IN  /\ SetStore(r.S)
        /\ handlers' = [handlers EXCEPT ![i] = IF r.h.pc = "done" THEN Idle ELSE r.h]
        /\ UNCHANGED now

\* slot i takes the request that arrives: the first free slot
FreeSlot(i) ==
    /\ handlers[i] = Idle
    /\ \A j \in 1..(i - 1) : handlers[j] /= Idle
    /\ RoomForArrival

BuyArrives(i, q) ==
    /\ FreeSlot(i)
    /\ Turn(i, BuyHandler(q))

SellArrives(i, q) ==
    /\ FreeSlot(i)
    /\ Turn(i, SellHandler(q))

SwapArrives(i, q) ==
    /\ FreeSlot(i)
    /\ Turn(i, SwapHandler(q))

StakeArrives(i, q) ==
    /\ FreeSlot(i)
    /\ Turn(i, StakeHandler(q))

UnstakeArrives(i, q) ==
    /\ FreeSlot(i)
    /\ Turn(i, UnstakeHandler(q))

Resume(i) ==
    /\ handlers[i] /= Idle
    /\ Turn(i, handlers[i])

NextConc ==
    \/ \E i \in 1..NumHandlers :
        \/ \E q \in ConcBuyRequests : BuyArrives(i, q)
        \/ \E q \in ConcSellRequests : SellArrives(i, q)
        \/ \E q \in ConcSwapRequests : SwapArrives(i, q)
        \/ \E q \in ConcStakeRequests : StakeArrives(i, q)
        \/ \E q \in ConcUnstakeRequests : UnstakeArrives(i, q)
        \/ Resume(i)
    \/ Tick

SpecConc == Init /\ [][NextConc]_vars

(***************************************************************************)
(* The achievements: the requests that read and check them, one at a time, *)
(* between requests that trade and stake and updates of a player's price.  *)
(***************************************************************************)
ReadAchievements(u) ==
    /\ NoneInFlight
    /\ SetStore(After(AchievementsHandler(u)))
    /\ UNCHANGED <<now, handlers>>

CheckAchievements(u) ==
    /\ NoneInFlight
    /\ SetStore(After(CheckHandler(u)))
    /\ UNCHANGED <<now, handlers>>

UpdatePlayerPrice(q) ==
    /\ NoneInFlight
    /\ SetStore(updatePlayerPrice(Store, q[1], q[2]))
    /\ UNCHANGED <<now, handlers>>

NextAch ==
    \/ \E q \in AchBuyRequests : Buy(q)
    \/ \E q \in AchSellRequests : Sell(q)
    \/ \E q \in AchSwapRequests : Swap(q)
    \/ \E q \in AchStakeRequests : Stake(q)
    \/ \E q \in AchUnstakeRequests : Unstake(q)
    \/ \E q \in PriceRequests : UpdatePlayerPrice(q)
    \/ \E u \in ReadRequests : ReadAchievements(u)
    \/ \E u \in AchievementRequests : CheckAchievements(u)
    \/ Tick

SpecAch == Init /\ [][NextAch]_vars

(***************************************************************************)
(* The achievements read and checked by requests in flight together.       *)
(***************************************************************************)
AchievementsArrives(i, u) ==
    /\ FreeSlot(i)
    /\ Turn(i, AchievementsHandler(u))

\* the checks in flight
ChecksInFlight ==
    Cardinality({i \in 1..NumHandlers : handlers[i] /= Idle /\ handlers[i].op = "check"})

CheckArrives(i, u) ==
    /\ FreeSlot(i)
    /\ ChecksInFlight < MaxChecks
    /\ Turn(i, CheckHandler(u))

NextAchConc ==
    \/ \E i \in 1..NumHandlers :
        \/ \E u \in ConcAchievementRequests : AchievementsArrives(i, u)
        \/ \E u \in ConcAchievementRequests : CheckArrives(i, u)
        \/ Resume(i)
    \/ Tick

SpecAchConc == Init /\ [][NextAchConc]_vars

(***************************************************************************)
(* The registrations made from the moment the store is constructed: the    *)
(* constructor has called initAdminUser, which is suspended at its first   *)
(* await and takes its turns among the registration handlers.              *)
(***************************************************************************)
RegisterRequests == {"admin", "bob"}

\* room in the users for the handlers in flight and one more
RoomForUser == userIdCounter + InFlight <= MaxUsers

InitReg ==
    /\ users = Constructed.users
    /\ userIdCounter = Constructed.userIdCounter
    /\ players = Constructed.players
    /\ playerIdCounter = Constructed.playerIdCounter
    /\ tokenHoldings = Constructed.tokenHoldings
    /\ tokenHoldingIdCounter = Constructed.tokenHoldingIdCounter
    /\ transactions = Constructed.transactions
    /\ transactionIdCounter = Constructed.transactionIdCounter
    /\ portfolioHistory = Constructed.portfolioHistory
    /\ portfolioHistoryIdCounter = Constructed.portfolioHistoryIdCounter
    /\ stakingPlans = Constructed.stakingPlans
    /\ achievements = Constructed.achievements
    /\ achievementIdCounter = Constructed.achievementIdCounter
    /\ userAchievements = Constructed.userAchievements
    /\ userAchievementIdCounter = Constructed.userAchievementIdCounter
    /\ now = 0
    /\ handlers = [i \in 1..NumHandlers |->
                     IF i = 1 THEN Step(Constructed, InitAdminHandler, 0).h ELSE Idle]

RegisterArrives(i, username) ==
    /\ handlers[i] = Idle
    /\ RoomForUser
    /\ Turn(i, RegisterHandler(username))

NextReg ==
    \E i \in 1..NumHandlers :
        \/ \E username \in RegisterRequests : RegisterArrives(i, username)
        \/ Resume(i)

SpecReg == InitReg /\ [][NextReg]_vars

(***************************************************************************)
(* The properties.  A property of a request is stated over every reachable *)
(* state and every request of the model: Outcome(h) is what the handler    *)
(* does when the request is made in that state, the store it leaves and    *)
(* the status it answers.                                                  *)
(***************************************************************************)
Succeeded(r) == r.h.status \in {200, 201}

HoldingOf(userId, playerId) == getTokenHolding(Store, userId, playerId)

\* the holdings other than the one with id k are the same in S as now
OthersUnchanged(S, k) ==
    /\ DOMAIN S.tokenHoldings \ {k} = DOMAIN tokenHoldings \ {k}
    /\ \A j \in DOMAIN tokenHoldings \ {k} : S.tokenHoldings[j] = tokenHoldings[j]

\* S has the transactions of now and exactly one more, tx
OneAppended(S, tx) ==
    /\ transactionIdCounter \notin DOMAIN transactions
    /\ DOMAIN S.transactions = DOMAIN transactions \cup {transactionIdCounter}
    /\ \A t \in DOMAIN transactions : S.transactions[t] = transactions[t]
    /\ tx = S.transactions[transactionIdCounter]

\* the holdings, the transaction log and the portfolio history are the same
\* in S as now
LedgerUnchanged(S) ==
    /\ S.tokenHoldings = tokenHoldings
    /\ S.transactions = transactions
    /\ S.portfolioHistory = portfolioHistory

\* floor(a / b) for b > 0
Floor(a, b) == a \div b

\* C1: in every reachable state there is at most one holding per
\* (userId, playerId), also when the handlers of requests for the same user
\* and player interleave at their awaits
C1_OneHoldingPerUserAndPlayer ==
    \A j, k \in DOMAIN tokenHoldings :
        (/\ tokenHoldings[j].userId = tokenHoldings[k].userId
         /\ tokenHoldings[j].playerId = tokenHoldings[k].playerId) => j = k

\* C2: every holding has amount >= 0 in every reachable state, whatever
\* nonzero integer amounts the buy, sell and swap requests carry
C2_AmountNeverNegative ==
    \A k \in DOMAIN tokenHoldings : tokenHoldings[k].amount >= 0

AnyHandler ==
    {BuyHandler(q) : q \in BuyRequests} \cup {SellHandler(q) : q \in SellRequests}
    \cup {SwapHandler(q) : q \in SwapRequests}
    \cup {StakeHandler(q) : q \in StakeRequests}
    \cup {UnstakeHandler(q) : q \in UnstakeRequests}

StillLocked(S, k) ==
    /\ S.tokenHoldings[k].isStaked
    /\ S.tokenHoldings[k].stakingEnd >= tokenHoldings[k].stakingEnd

\* C3: a holding staked with lock end E stays staked, with a lock end no
\* earlier than E, through every request made at a time before E; and a
\* stake request is accepted only for a holding that is not staked
C3_StakingNotReversible ==
    /\ \A k \in DOMAIN tokenHoldings :
          (tokenHoldings[k].isStaked /\ now < tokenHoldings[k].stakingEnd) =>
              \A h \in AnyHandler : StillLocked(After(h), k)
    /\ \A q \in StakeRequests :
          Succeeded(Outcome(StakeHandler(q))) => ~HoldingOf(q[1], q[2]).isStaked

SellAllowed(holding, amount) ==
    /\ holding.id /= NoId
    /\ ~holding.isStaked
    /\ holding.amount >= amount

\* C4: a sell succeeds only if the holding exists, is not staked and has at
\* least the requested amount (and it does succeed then, when the request
\* carries an amount and a price); on success the holding's amount goes down
\* by exactly the requested amount; a rejected sell leaves the holdings, the
\* transactions and the portfolio history as they were
C4_SellContract ==
    \A q \in SellRequests :
        LET r == Outcome(SellHandler(q))
            holding == HoldingOf(q[1], q[2])
        IN  /\ Succeeded(r) => SellAllowed(holding, q[3])
            /\ (SellAllowed(holding, q[3]) /\ q[3] /= 0 /\ q[4] /= 0) => Succeeded(r)
            /\ Succeeded(r) =>
                  r.S.tokenHoldings[holding.id].amount = holding.amount - q[3]
            /\ ~Succeeded(r) => LedgerUnchanged(r.S)

\* a sell of 53 tokens has been made from a holding of 60
C4_Witness ==
    \E t \in DOMAIN transactions :
        /\ transactions[t].type = "sell"
        /\ transactions[t].amount = 53
        /\ HoldingOf(transactions[t].userId, transactions[t].playerId).amount = 7

\* C5: a buy for an unknown user or an unknown player is rejected with the
\* store unchanged; otherwise (the request carrying an amount and a price) an
\* existing holding's amount goes up by exactly the amount and its
\* purchasePrice becomes the price, or else a new unstaked holding with that
\* amount is created; in both cases exactly one transaction, of type buy with
\* that amount and price, is appended
C5_BuyContract ==
    \A q \in BuyRequests :
        LET r == Outcome(BuyHandler(q))
            holding == HoldingOf(q[1], q[2])
            known == getUser(Store, q[1]).id /= NoId /\ getPlayer(Store, q[2]).id /= NoId
            id == IF holding.id /= NoId THEN holding.id ELSE tokenHoldingIdCounter
        IN  /\ ~known => (~Succeeded(r) /\ r.S = Store)
            /\ (known /\ q[3] /= 0 /\ q[4] /= 0) =>
                  /\ Succeeded(r)
                  /\ OthersUnchanged(r.S, id)
                  /\ id \in DOMAIN r.S.tokenHoldings
                  /\ r.S.tokenHoldings[id] =
                        [holding EXCEPT !.id = id, !.userId = q[1], !.playerId = q[2],
                                        !.amount = holding.amount + q[3],
                                        !.purchasePrice = q[4]]
                  /\ (holding.id = NoId => ~r.S.tokenHoldings[id].isStaked)
                  /\ \E tx \in {r.S.transactions[transactionIdCounter]} :
                        /\ OneAppended(r.S, tx)
                        /\ tx.type = "buy"
                        /\ tx.userId = q[1]
                        /\ tx.playerId = q[2]
                        /\ tx.amount = q[3]
                        /\ tx.price = q[4]

\* a buy has made a new holding, and a buy has added to a holding there was
C5_Witness ==
    /\ \E t \in DOMAIN transactions :
          /\ transactions[t].type = "buy"
          /\ transactions[t].userId = 2
          /\ HoldingOf(2, transactions[t].playerId).amount = transactions[t].amount
          /\ ~HoldingOf(2, transactions[t].playerId).isStaked
    /\ \E t \in DOMAIN transactions :
          /\ transactions[t].type = "buy"
          /\ transactions[t].userId = 1
          /\ HoldingOf(1, transactions[t].playerId).amount = 60 + transactions[t].amount
          /\ HoldingOf(1, transactions[t].playerId).purchasePrice = transactions[t].price

\* the store after a buy immediately followed by a sell of the same amount
BuyThenSell(q) == Run(After(BuyHandler(q)), SellHandler(q), now).S

\* a buy that passes the checks of the handler
BuyAccepted(q) ==
    /\ getUser(Store, q[1]).id /= NoId
    /\ getPlayer(Store, q[2]).id /= NoId
    /\ q[3] /= 0
    /\ q[4] /= 0

\* in S the holding has the amount it has now, and the log a buy and a sell more
BackWithTwoTransactions(S, q) ==
    /\ getTokenHolding(S, q[1], q[2]).amount = HoldingOf(q[1], q[2]).amount
    /\ DOMAIN S.transactions =
          DOMAIN transactions \cup {transactionIdCounter, transactionIdCounter + 1}
    /\ S.transactions[transactionIdCounter].type = "buy"
    /\ S.transactions[transactionIdCounter + 1].type = "sell"

\* C6, as stated: for every user, player and amount and every state of the
\* holding, a staked one included, a buy immediately followed by a sell of the
\* same amount brings the holding's amount back to what it was and records
\* exactly two transactions, a buy and a sell
C6_BuyThenSellAnyHolding ==
    \A q \in BuyRequests : BuyAccepted(q) => BackWithTwoTransactions(BuyThenSell(q), q)

\* in S the holding has the amount bought more than now, and the log the buy
\* alone more
UpWithOneTransaction(S, q) ==
    /\ getTokenHolding(S, q[1], q[2]).amount = HoldingOf(q[1], q[2]).amount + q[3]
    /\ \E tx \in {S.transactions[transactionIdCounter]} :
          OneAppended(S, tx) /\ tx.type = "buy"

\* C6, amended: that holds for a holding that is not staked and whose amount
\* is not negative; for a staked holding the buy is made and the sell is
\* rejected, so the amount stays up by the amount bought and exactly one
\* transaction, the buy, is recorded
C6_BuyThenSellUnstaked ==
    \A q \in BuyRequests :
        BuyAccepted(q) =>
            IF HoldingOf(q[1], q[2]).isStaked
            THEN UpWithOneTransaction(BuyThenSell(q), q)
            ELSE HoldingOf(q[1], q[2]).amount >= 0 =>
                     BackWithTwoTransactions(BuyThenSell(q), q)

\* a buy of 53 and then a sell of 53 have been made, and the holding is back
\* at its 60 tokens
C6_Witness ==
    /\ DOMAIN transactions = {1, 2}
    /\ transactions[1].type = "buy"
    /\ transactions[2].type = "sell"
    /\ transactions[1].amount = 53
    /\ transactions[2].amount = 53
    /\ transactions[1].userId = transactions[2].userId
    /\ transactions[1].playerId = transactions[2].playerId
    /\ HoldingOf(transactions[1].userId, transactions[1].playerId).amount = 60
    /\ ~HoldingOf(transactions[1].userId, transactions[1].playerId).isStaked

\* floor(amount * fromPrice / toPrice) of a swap request, the prices being
\* the decimal numbers the players carry
ToAmount(q) ==
    Floor(q[4] * getPlayer(Store, q[2]).tokenPrice, getPlayer(Store, q[3]).tokenPrice)

\* what a swap has added to the destination holding: the source holding is
\* taken down by the amount first, also when it is the destination itself
Credited(S, q) ==
    getTokenHolding(S, q[1], q[3]).amount
    - (IF q[2] = q[3] THEN HoldingOf(q[1], q[2]).amount - q[4]
       ELSE HoldingOf(q[1], q[3]).amount)

\* C7: a successful swap takes exactly amount from the source holding and
\* adds exactly floor(amount * fromPrice / toPrice) to the destination
\* holding, which it creates if there is none
C7_SwapAmounts ==
    \A q \in SwapRequests :
        LET r == Outcome(SwapHandler(q))
        IN  Succeeded(r) =>
              /\ q[2] /= q[3] =>
                    getTokenHolding(r.S, q[1], q[2]).amount =
                        HoldingOf(q[1], q[2]).amount - q[4]
              /\ Credited(r.S, q) = ToAmount(q)

SwapRefused(q) ==
    \/ HoldingOf(q[1], q[2]).id = NoId
    \/ HoldingOf(q[1], q[2]).isStaked
    \/ HoldingOf(q[1], q[2]).amount < q[4]
    \/ getPlayer(Store, q[2]).id = NoId
    \/ getPlayer(Store, q[3]).id = NoId
    \/ ToAmount(q) <= 0

\* C8: a swap is rejected when the source holding is missing, is staked or
\* has less than the requested amount, when either player is unknown, or when
\* the amount to credit is not positive (and a swap that carries an amount is
\* rejected for no other reason); a rejected swap leaves the holdings, the
\* transaction log and the portfolio history as they were
C8_SwapRejections ==
    \A q \in SwapRequests :
        LET r == Outcome(SwapHandler(q))
        IN  /\ SwapRefused(q) => ~Succeeded(r)
            /\ ~Succeeded(r) => (SwapRefused(q) \/ q[4] = 0)
            /\ ~Succeeded(r) => LedgerUnchanged(r.S)

\* a holding has been staked, and the swap that takes from it is rejected
C8_Witness ==
    /\ \E t \in DOMAIN transactions : transactions[t].type = "stake"
    /\ \E q \in SwapRequests :
          /\ HoldingOf(q[1], q[2]).isStaked
          /\ HoldingOf(q[1], q[2]).amount >= q[4]
          /\ q[4] > 0
          /\ getPlayer(Store, q[3]).id /= NoId
          /\ Outcome(SwapHandler(q)).h.status = 400

\* C9: a successful swap appends exactly one transaction: of type swap, for
\* the destination player, with the amount credited, the destination player's
\* token price, and the source player as fromPlayerId
C9_SwapTransaction ==
    \A q \in SwapRequests :
        LET r == Outcome(SwapHandler(q))
        IN  Succeeded(r) =>
              \E tx \in {r.S.transactions[transactionIdCounter]} :
                  /\ OneAppended(r.S, tx)
                  /\ tx.type = "swap"
                  /\ tx.userId = q[1]
                  /\ tx.playerId = q[3]
                  /\ tx.fromPlayerId = q[2]
                  /\ tx.amount = Credited(r.S, q)
                  /\ tx.price = getPlayer(Store, q[3]).tokenPrice

\* a swap of player 5 for player 1 has been made and recorded
C9_Witness ==
    \E t \in DOMAIN transactions :
        /\ transactions[t].type = "swap"
        /\ transactions[t].fromPlayerId = 5
        /\ transactions[t].playerId = 1
        /\ transactions[t].price = 265
        /\ HoldingOf(transactions[t].userId, 5).amount = 7
        /\ HoldingOf(transactions[t].userId, 1).amount = 60 + transactions[t].amount

StakeAllowed(holding, amount, planId) ==
    /\ holding.id /= NoId
    /\ planId \in DOMAIN stakingPlans
    /\ amount <= holding.amount
    /\ amount >= stakingPlans[planId].minTokens

\* C10: a stake succeeds only if the holding exists, the plan exists, and the
\* amount is at most the holding's amount and at least the plan's minTokens
\* (and it does succeed then); on success the holding is staked under the
\* plan's name from now until now + lockPeriodDays, its amount unchanged; a
\* rejected stake leaves the holdings and the transaction log as they were
C10_StakeContract ==
    \A q \in StakeRequests :
        LET r == Outcome(StakeHandler(q))
            holding == HoldingOf(q[1], q[2])
        IN  /\ Succeeded(r) <=> StakeAllowed(holding, q[3], q[4])
            /\ Succeeded(r) =>
                  /\ OthersUnchanged(r.S, holding.id)
                  /\ r.S.tokenHoldings[holding.id] =
                        [holding EXCEPT !.isStaked = TRUE,
                                        !.stakingPlan = stakingPlans[q[4]].name,
                                        !.stakingStart = now,
                                        !.stakingEnd = now + stakingPlans[q[4]].lockPeriodDays]
            /\ ~Succeeded(r) =>
                  /\ r.S.tokenHoldings = tokenHoldings
                  /\ r.S.transactions = transactions

\* a holding of 60 has been staked under the 90-day plan on day 30
C10_Witness ==
    \E k \in DOMAIN tokenHoldings :
        /\ tokenHoldings[k].isStaked
        /\ tokenHoldings[k].stakingPlan = stakingPlans[2].name
        /\ tokenHoldings[k].stakingStart = TickDays
        /\ tokenHoldings[k].stakingEnd = TickDays + stakingPlans[2].lockPeriodDays
        /\ tokenHoldings[k].amount = 60
        /\ \E t \in DOMAIN transactions :
              /\ transactions[t].type = "stake"
              /\ transactions[t].playerId = tokenHoldings[k].playerId

\* C11: an unstake is rejected, with the holdings unchanged, when the holding
\* is not staked or when now < stakingEnd; when the holding is staked and
\* now >= stakingEnd (now = stakingEnd included) it succeeds, and the holding
\* has isStaked false and no stakingPlan, stakingStart or stakingEnd, every
\* other field and every other holding as before
C11_UnstakeContract ==
    \A q \in UnstakeRequests :
        LET r == Outcome(UnstakeHandler(q))
            holding == HoldingOf(q[1], q[2])
        IN  /\ (holding.id = NoId \/ ~holding.isStaked \/ now < holding.stakingEnd) =>
                  /\ ~Succeeded(r)
                  /\ r.S.tokenHoldings = tokenHoldings
            /\ (holding.id /= NoId /\ holding.isStaked /\ now >= holding.stakingEnd) =>
                  /\ Succeeded(r)
                  /\ OthersUnchanged(r.S, holding.id)
                  /\ r.S.tokenHoldings[holding.id] =
                        [holding EXCEPT !.isStaked = FALSE, !.stakingPlan = NoPlan,
                                        !.stakingStart = NoDate, !.stakingEnd = NoDate]

\* a holding staked on day 0 for 30 days has been unstaked on day 30, the
\* day its lock ended
C11_Witness ==
    /\ DOMAIN transactions = {1, 2}
    /\ transactions[1].type = "stake"
    /\ transactions[1].timestamp = 0
    /\ transactions[2].type = "unstake"
    /\ transactions[2].timestamp = stakingPlans[1].lockPeriodDays
    /\ transactions[1].userId = transactions[2].userId
    /\ transactions[1].playerId = transactions[2].playerId
    /\ ~HoldingOf(transactions[2].userId, transactions[2].playerId).isStaked
    /\ HoldingOf(transactions[2].userId, transactions[2].playerId).stakingEnd = NoDate
    /\ now = stakingPlans[1].lockPeriodDays

\* what the requests of the model do to the holding of user u and player p
\* once it is staked, S being the store with the holding staked: every sell
\* of it and every swap out of it is rejected, and the tokens that a buy or
\* a swap into it adds are added to stakedTokens
StakedAsAWhole(S, u, p) ==
    /\ \A q \in SellRequests :
          (q[1] = u /\ q[2] = p) => ~Succeeded(Run(S, SellHandler(q), now))
    /\ \A q \in SwapRequests :
          (q[1] = u /\ q[2] = p) => ~Succeeded(Run(S, SwapHandler(q), now))
    /\ \A q \in BuyRequests :
          (q[1] = u /\ q[2] = p /\ q[3] /= 0 /\ q[4] /= 0) =>
              LET r == Run(S, BuyHandler(q), now)
              IN  /\ Succeeded(r)
                  /\ stakedTokens(r.S, u) = stakedTokens(S, u) + q[3]
    /\ \A q \in SwapRequests :
          (q[1] = u /\ q[3] = p /\ q[2] /= p) =>
              LET r == Run(S, SwapHandler(q), now)
              IN  Succeeded(r) =>
                    stakedTokens(r.S, u) =
                        stakedTokens(S, u) + getTokenHolding(r.S, u, p).amount
                                           - getTokenHolding(S, u, p).amount

\* C12: a successful stake of k tokens of a holding that has more than k
\* flags the whole holding: stakedTokens counts the holding's full amount,
\* every sell and swap of the holding is rejected, and the tokens that a later
\* buy or a later swap into the holding adds count as staked too
C12_StakeFlagsWholeHolding ==
    \A q \in StakeRequests :
        LET r == Outcome(StakeHandler(q))
            holding == HoldingOf(q[1], q[2])
        IN  (Succeeded(r) /\ q[3] < holding.amount) =>
              /\ stakedTokens(r.S, q[1]) =
                    stakedTokens(Store, q[1]) + holding.amount
                    - (IF holding.isStaked THEN holding.amount ELSE 0)
              /\ StakedAsAWhole(r.S, q[1], q[2])

\* 53 tokens of a holding of 60 have been staked and a buy has added to the
\* holding since: stakedTokens has all the tokens the holding has now
C12_Witness ==
    /\ DOMAIN transactions = {1, 2}
    /\ transactions[1].type = "stake"
    /\ transactions[1].amount = 53
    /\ transactions[2].type = "buy"
    /\ transactions[2].amount > 0
    /\ transactions[1].userId = transactions[2].userId
    /\ transactions[1].playerId = transactions[2].playerId
    /\ HoldingOf(transactions[1].userId, transactions[1].playerId).isStaked
    /\ stakedTokens(Store, transactions[1].userId) = 60 + transactions[2].amount

\* S has the portfolio history of now and exactly one snapshot more, of the
\* user, with the total value of the user's portfolio in S
SnapshotAppended(S, userId) ==
    /\ portfolioHistoryIdCounter \notin DOMAIN portfolioHistory
    /\ DOMAIN S.portfolioHistory = DOMAIN portfolioHistory \cup {portfolioHistoryIdCounter}
    /\ \A k \in DOMAIN portfolioHistory : S.portfolioHistory[k] = portfolioHistory[k]
    /\ S.portfolioHistory[portfolioHistoryIdCounter].userId = userId
    /\ S.portfolioHistory[portfolioHistoryIdCounter].totalValue =
          PortfolioTotalValue(S, userId)

\* C13: every successful buy, sell, swap, stake and unstake appends exactly
\* one portfolio snapshot, for the acting user, with the total value of the
\* user's portfolio after the mutation; a rejected request appends none
C13_SnapshotPerMutation ==
    \A h \in AnyHandler :
        LET r == Outcome(h)
        IN  IF Succeeded(r) THEN SnapshotAppended(r.S, h.userId)
            ELSE r.S.portfolioHistory = portfolioHistory

\* C14: the transaction log and the portfolio history only grow: every
\* record stored stays stored, with every field as it was, through every step
C14_LogsAppendOnly ==
    [][/\ \A k \in DOMAIN transactions :
            k \in DOMAIN transactions' /\ transactions'[k] = transactions[k]
       /\ \A k \in DOMAIN portfolioHistory :
            k \in DOMAIN portfolioHistory' /\ portfolioHistory'[k] = portfolioHistory[k]]_vars

\* two transactions and two snapshots have been stored, the second ones
\* after the first ones
C14_Witness ==
    /\ DOMAIN transactions = {1, 2}
    /\ DOMAIN portfolioHistory = {1, 2}
    /\ transactions[1].timestamp < transactions[2].timestamp
    /\ portfolioHistory[1].timestamp < portfolioHistory[2].timestamp

\* the sum over the holdings ids of amount times the player's token price,
\* in cents
RECURSIVE ValueInCents(_, _)
ValueInCents(S, ids) ==
    IF ids = {} THEN 0
    ELSE LET k == Min(ids)
         IN  S.tokenHoldings[k].amount * S.players[S.tokenHoldings[k].playerId].tokenPrice
             + ValueInCents(S, ids \ {k})

StakedTokenIds(userId) ==
    {k \in UserTokenIds(Store, userId) : tokenHoldings[k].isStaked}

\* C15: for every user in every reachable state the portfolio has
\* nbaTokens + nflTokens = the sum of the amounts of the user's holdings,
\* stakedTokens = the sum of the amounts of the user's staked holdings, and
\* totalValue = the sum over the holdings of amount times the player's
\* current token price (the number that prints as that decimal sum)
C15_PortfolioSums ==
    \A u \in DOMAIN users :
        /\ nbaTokens(Store, u) + nflTokens(Store, u) =
              SumAmounts(Store, UserTokenIds(Store, u))
        /\ stakedTokens(Store, u) = SumAmounts(Store, StakedTokenIds(u))
        /\ TotalValue(PortfolioTotalValue(Store, u)) =
              NumberOfDecimal(ValueInCents(Store, UserTokenIds(Store, u)))

\* C16: for a user with no holdings, a buy of n tokens of player P at price p
\* leaves a holding with amount n, exactly one transaction more, a buy, and
\* a portfolio totalValue, recorded in the snapshot too, of n times p, p
\* being the price of the request
C16_FirstBuyValue ==
    \A q \in BuyRequests :
        (BuyAccepted(q) /\ q[3] > 0 /\ UserTokenIds(Store, q[1]) = {}) =>
            LET r == Outcome(BuyHandler(q))
            IN  /\ Succeeded(r)
                /\ getTokenHolding(r.S, q[1], q[2]).amount = q[3]
                /\ \E tx \in {r.S.transactions[transactionIdCounter]} :
                      OneAppended(r.S, tx) /\ tx.type = "buy"
                /\ TotalValue(PortfolioTotalValue(r.S, q[1])) = NumberOfDecimal(q[3] * q[4])
                /\ SnapshotAppended(r.S, q[1])

\* C17: the progress stored in a user-achievement record never decreases,
\* whatever request or price update is made, also when the value that a
\* check computes has dropped
C17_ProgressNeverDecreases ==
    [][\A i \in 1..Len(userAchievements) :
          /\ i <= Len(userAchievements')
          /\ userAchievements'[i].id = userAchievements[i].id
          /\ userAchievements'[i].progress >= userAchievements[i].progress]_vars

RecordOf(userId, achievementId) ==
    userAchievements[FindUserAchievement(Store, userId, achievementId)]

\* the admin's achievements have been checked since the value of the
\* portfolio dropped and since the only staked holding was unstaked: the
\* records keep the higher progress of an earlier check
C17_Witness ==
    /\ FindUserAchievement(Store, 1, 5) /= 0
    /\ FindUserAchievement(Store, 1, 11) /= 0
    /\ RecordOf(1, 5).progress > DFloor(TotalValue(PortfolioTotalValue(Store, 1)))
    /\ RecordOf(1, 11).progress = 1
    /\ HoldingCounts(Store, 1).staked_tokens = 0
    /\ \E t \in DOMAIN transactions : transactions[t].type = "unstake"
    /\ Outcome(CheckHandler(1)).S = Store

\* C18: in every user-achievement record completed goes from false to true
\* at most once and never back, and completedAt is set exactly once, in the
\* step that makes completed true, to the time of that step, and is never
\* changed afterwards
C18_CompletedOnce ==
    [][/\ \A i \in 1..Len(userAchievements) :
            /\ i <= Len(userAchievements')
            /\ userAchievements[i].completed =>
                  /\ userAchievements'[i].completed
                  /\ userAchievements'[i].completedAt = userAchievements[i].completedAt
            /\ ~userAchievements[i].completed =>
                  /\ userAchievements[i].completedAt = NoDate
                  /\ userAchievements'[i].completedAt =
                        IF userAchievements'[i].completed THEN now ELSE NoDate
       /\ \A i \in (Len(userAchievements) + 1)..Len(userAchievements') :
            userAchievements'[i].completedAt =
                IF userAchievements'[i].completed THEN now ELSE NoDate]_vars

\* the admin's first achievement was completed on day 0 and its progress has
\* risen since, in a check made on day 30 that completed another achievement
C18_Witness ==
    /\ FindUserAchievement(Store, 1, 1) /= 0
    /\ FindUserAchievement(Store, 1, 11) /= 0
    /\ RecordOf(1, 1).completed
    /\ RecordOf(1, 1).completedAt = 0
    /\ RecordOf(1, 1).progress = 2
    /\ RecordOf(1, 11).completed
    /\ RecordOf(1, 11).completedAt = TickDays

\* C19: a check of a user's achievements made right after a check, with no
\* request or price update in between (on the same day or a later one),
\* changes no stored record and returns the same progress and completed
\* values for every achievement
C19_CheckIdempotent ==
    \A u \in AchievementRequests :
        LET r1 == Outcome(CheckHandler(u))
            r2 == Run(r1.S, CheckHandler(u), now)
            r3 == Run(r1.S, CheckHandler(u), now + TickDays)
        IN  /\ r2.S = r1.S
            /\ r2.h.status = r1.h.status
            /\ r2.h.result = r1.h.result
            /\ r3.S = r1.S
            /\ r3.h.result = r1.h.result

\* the admin's achievements have been checked since the last of two
\* transactions: a check now finds every record as it leaves it
C19_Witness ==
    /\ FindUserAchievement(Store, 1, 1) /= 0
    /\ RecordOf(1, 1).progress = 2
    /\ Cardinality(UserTransactionIds(Store, 1)) = 2
    /\ Len(Outcome(CheckHandler(1)).h.result) = Len(AchievementSeed)
    /\ Outcome(CheckHandler(1)).S = Store

\* the records of the user and the achievement
RecordsOf(S, userId, achievementId) ==
    {i \in 1..Len(S.userAchievements) :
        /\ S.userAchievements[i].userId = userId
        /\ S.userAchievements[i].achievementId = achievementId}

\* a read of the user's achievements makes one record, with progress 0 and
\* completed false, for each achievement the user has no record of, and
\* leaves the records there are as they are
FirstReadCreates(u) ==
    LET r == Outcome(AchievementsHandler(u))
    IN  /\ SubSeq(r.S.userAchievements, 1, Len(userAchievements)) = userAchievements
        /\ \A a \in DOMAIN achievements :
              IF RecordsOf(Store, u, a) /= {}
              THEN RecordsOf(r.S, u, a) = RecordsOf(Store, u, a)
              ELSE \E i \in (Len(userAchievements) + 1)..Len(r.S.userAchievements) :
                      /\ RecordsOf(r.S, u, a) = {i}
                      /\ r.S.userAchievements[i].progress = 0
                      /\ ~r.S.userAchievements[i].completed

\* C20: in every reachable state there is at most one user-achievement
\* record per (userId, achievementId), also when reads and checks of the
\* same user's achievements interleave at their awaits; the first read makes
\* one record with progress 0 and completed false for each achievement the
\* user has no record of
C20_OneRecordPerUserAndAchievement ==
    /\ \A i, j \in 1..Len(userAchievements) :
          (/\ userAchievements[i].userId = userAchievements[j].userId
           /\ userAchievements[i].achievementId = userAchievements[j].achievementId)
          => i = j
    /\ \A u \in ConcAchievementRequests : FirstReadCreates(u)

\* C21: no two users in the store have the same username, whatever
\* registrations are made, also when two registrations of one username, or
\* a registration of "admin" and the set-up of the admin user, interleave
\* at the await of the password hash between the look-up of the username
\* and createUser
C21_UsernamesUnique ==
    \A i, j \in DOMAIN users :
        users[i].username = users[j].username => i = j

(***************************************************************************)
(* The ids.  An id is assigned when a counter is read and incremented; the *)
(* record is stored at once, or, by updateUserAchievementProgress, after   *)
(* the await that follows, the handler holding it until then.              *)
(***************************************************************************)
\* the ids of the user-achievement records that handlers in flight hold
PendingUserAchievementIds ==
    {handlers[i].fresh.id :
        i \in {j \in 1..NumHandlers :
                 /\ handlers[j].pc = "getAchievement"
                 /\ handlers[j].found = NoId}}

\* the ids assigned so far, by entity type
AssignedIds ==
    [users |-> DOMAIN users,
     players |-> DOMAIN players,
     tokenHoldings |-> DOMAIN tokenHoldings,
     transactions |-> DOMAIN transactions,
     portfolioHistory |-> DOMAIN portfolioHistory,
     achievements |-> DOMAIN achievements,
     userAchievements |->
         {userAchievements[k].id : k \in DOMAIN userAchievements}
         \cup PendingUserAchievementIds]

\* the id that the next record of each entity type gets
IdCounters ==
    [users |-> userIdCounter,
     players |-> playerIdCounter,
     tokenHoldings |-> tokenHoldingIdCounter,
     transactions |-> transactionIdCounter,
     portfolioHistory |-> portfolioHistoryIdCounter,
     achievements |-> achievementIdCounter,
     userAchievements |-> userAchievementIdCounter]

\* every record is stored under its id, and no two user-achievement records
\* have the same id
StoredUnderId ==
    /\ \A k \in DOMAIN users : users[k].id = k
    /\ \A k \in DOMAIN players : players[k].id = k
    /\ \A k \in DOMAIN tokenHoldings : tokenHoldings[k].id = k
    /\ \A k \in DOMAIN transactions : transactions[k].id = k
    /\ \A k \in DOMAIN portfolioHistory : portfolioHistory[k].id = k
    /\ \A k \in DOMAIN achievements : achievements[k].id = k
    /\ \A i, j \in DOMAIN userAchievements :
            userAchievements[i].id = userAchievements[j].id => i = j
    /\ \A i \in DOMAIN userAchievements :
            userAchievements[i].id \notin PendingUserAchievementIds
    /\ Cardinality(PendingUserAchievementIds) =
            Cardinality({j \in 1..NumHandlers :
                            /\ handlers[j].pc = "getAchievement"
                            /\ handlers[j].found = NoId})

\* the ids assigned are 1, 2, ... up to the counter
IdsFromOne ==
    \A e \in DOMAIN IdCounters : AssignedIds[e] = 1..(IdCounters[e] - 1)

\* a step assigns the ids from the counter on, one after the other, and
\* none that was assigned before
IdsNext ==
    \A e \in DOMAIN IdCounters :
        /\ AssignedIds[e] \subseteq AssignedIds'[e]
        /\ AssignedIds'[e] \ AssignedIds[e] = IdCounters[e]..(IdCounters'[e] - 1)

\* C22: for each entity type the ids start at 1, each create operation
\* assigns the id one greater than the id assigned before it, and no id is
\* assigned twice; so it is for the user-achievement records, made by
\* getUserAchievements or by updateUserAchievementProgress.
C22_SequentialIds == [](StoredUnderId /\ IdsFromOne) /\ [][IdsNext]_vars

\* user 2's achievements have been read and never checked, user 2 has bought
\* a holding, and the check of user 1's achievements makes user 1's records
C22_Witness ==
    /\ Len(userAchievements) = Len(AchievementSeed)
    /\ \A k \in DOMAIN userAchievements :
            userAchievements[k].userId = 2 /\ userAchievements[k].id = k
    /\ getTokenHolding(Store, 2, 1).id = Len(PlayerSeed) + 1
    /\ DOMAIN transactions = {1}
    /\ DOMAIN portfolioHistory = {1}
    /\ Len(After(CheckHandler(1)).userAchievements) = 2 * Len(AchievementSeed)
    /\ After(CheckHandler(1)).userAchievements[Len(AchievementSeed) + 1].id =
            Len(AchievementSeed) + 1
    /\ After(CheckHandler(1)).userAchievements[Len(AchievementSeed) + 1].userId = 1

(***************************************************************************)
(* The statuses of the rejections.                                         *)
(***************************************************************************)
StatusOf(h) == Outcome(h).h.status

UnknownUserOrPlayer(userId, playerId) ==
    userId \notin DOMAIN users \/ playerId \notin DOMAIN players

NoHoldingOf(userId, playerId) == getTokenHolding(Store, userId, playerId).id = NoId

\* a request that names a user, player, holding or staking plan that the
\* store does not have
UnknownInBuy(q)     == UnknownUserOrPlayer(q[1], q[2])
UnknownInSell(q)    == UnknownUserOrPlayer(q[1], q[2]) \/ NoHoldingOf(q[1], q[2])
UnknownInSwap(q)    == \/ UnknownUserOrPlayer(q[1], q[2])
                       \/ q[3] \notin DOMAIN players
                       \/ NoHoldingOf(q[1], q[2])
UnknownInStake(q)   == \/ UnknownUserOrPlayer(q[1], q[2])
                       \/ NoHoldingOf(q[1], q[2])
                       \/ q[4] \notin DOMAIN stakingPlans
UnknownInUnstake(q) == UnknownUserOrPlayer(q[1], q[2]) \/ NoHoldingOf(q[1], q[2])

\* a request with every field given that names what the store has and
\* breaks a rule: more tokens than the holding has, a staked holding sold or
\* swapped, fewer tokens than the plan's minimum, a lock that has not ended
RuleBrokenInSell(q) ==
    /\ ~UnknownInSell(q)
    /\ \/ getTokenHolding(Store, q[1], q[2]).amount < q[3]
       \/ getTokenHolding(Store, q[1], q[2]).isStaked
RuleBrokenInSwap(q) ==
    /\ ~UnknownInSwap(q)
    /\ \/ getTokenHolding(Store, q[1], q[2]).amount < q[4]
       \/ getTokenHolding(Store, q[1], q[2]).isStaked
RuleBrokenInStake(q) ==
    /\ ~UnknownInStake(q)
    /\ \/ getTokenHolding(Store, q[1], q[2]).amount < q[3]
       \/ q[3] < stakingPlans[q[4]].minTokens
RuleBrokenInUnstake(q) ==
    /\ ~UnknownInUnstake(q)
    /\ getTokenHolding(Store, q[1], q[2]).isStaked
    /\ now < getTokenHolding(Store, q[1], q[2]).stakingEnd

AllGiven(q) == \A i \in DOMAIN q : q[i] /= 0

\* the holding named is there and too small for the amount, or staked
HoldingRuleBroken(userId, playerId, amount) ==
    /\ ~NoHoldingOf(userId, playerId)
    /\ \/ getTokenHolding(Store, userId, playerId).amount < amount
       \/ getTokenHolding(Store, userId, playerId).isStaked

\* the rule-breaking requests are answered 400
RuleBrokenIs400 ==
    /\ \A q \in SellRequests :
            AllGiven(q) /\ RuleBrokenInSell(q) => StatusOf(SellHandler(q)) = 400
    /\ \A q \in SwapRequests :
            AllGiven(q) /\ RuleBrokenInSwap(q) => StatusOf(SwapHandler(q)) = 400
    /\ \A q \in StakeRequests :
            AllGiven(q) /\ RuleBrokenInStake(q) => StatusOf(StakeHandler(q)) = 400
    /\ \A q \in UnstakeRequests :
            AllGiven(q) /\ RuleBrokenInUnstake(q) => StatusOf(UnstakeHandler(q)) = 400

\* buy, sell and swap answer 404 to what they do not find (a request that
\* also breaks a rule on the holding it names aside)
UnknownIs404InTrading ==
    /\ \A q \in BuyRequests :
            AllGiven(q) /\ UnknownInBuy(q) => StatusOf(BuyHandler(q)) = 404
    /\ \A q \in SellRequests :
            AllGiven(q) /\ UnknownInSell(q) => StatusOf(SellHandler(q)) = 404
    /\ \A q \in SwapRequests :
            AllGiven(q) /\ UnknownInSwap(q) /\ ~HoldingRuleBroken(q[1], q[2], q[4])
                => StatusOf(SwapHandler(q)) = 404

\* and so would stake and unstake
UnknownIs404InStaking ==
    /\ \A q \in StakeRequests :
            AllGiven(q) /\ UnknownInStake(q) /\ ~HoldingRuleBroken(q[1], q[2], q[3])
                => StatusOf(StakeHandler(q)) = 404
    /\ \A q \in UnstakeRequests :
            AllGiven(q) /\ UnknownInUnstake(q) => StatusOf(UnstakeHandler(q)) = 404

\* C23: a buy, sell, swap, stake or unstake request that names an unknown
\* user, player, holding or staking plan is answered 404, and one that
\* breaks a business rule is answered 400.
C23_RejectionStatuses ==
    UnknownIs404InTrading /\ UnknownIs404InStaking /\ RuleBrokenIs400

(***************************************************************************)
(* Two buys of the same holding in flight together.                        *)
(***************************************************************************)
\* the handlers in slots i and j are buys suspended at the await of
\* getTokenHolding, both having found the same holding with the same amount
BuysSuspendedOn(i, j) ==
    /\ i /= j
    /\ handlers[i].pc = "getTokenHolding" /\ handlers[i].op = "buy"
    /\ handlers[j].pc = "getTokenHolding" /\ handlers[j].op = "buy"
    /\ handlers[i].holding.id /= NoId
    /\ handlers[i].holding.id = handlers[j].holding.id
    /\ handlers[i].holding.amount = handlers[j].holding.amount

\* the store after the handler in slot i, then the handler in slot j, have
\* run on to their responses
BothResumed(i, j) == Run(Run(Store, handlers[i], now).S, handlers[j], now).S

BuyTransaction(S, k, h) ==
    /\ S.transactions[k].type = "buy"
    /\ S.transactions[k].userId = h.userId
    /\ S.transactions[k].playerId = h.playerId
    /\ S.transactions[k].amount = h.amount

\* C24: when two buy handlers are suspended between getTokenHolding and
\* updateTokenHolding on the same existing holding, both having read the
\* amount a, and both then resume, the amount is a plus the amount of the
\* buy that wrote last, not a plus both amounts, and two buy transactions
\* are recorded.
C24_LostUpdate ==
    \A i, j \in 1..NumHandlers :
        BuysSuspendedOn(i, j) =>
            LET id == handlers[i].holding.id
                a  == handlers[i].holding.amount
                S  == BothResumed(i, j)
            IN  /\ S.tokenHoldings[id].amount = a + handlers[j].amount
                /\ S.tokenHoldings[id].amount /= a + handlers[i].amount + handlers[j].amount
                /\ S.transactionIdCounter = transactionIdCounter + 2
                /\ BuyTransaction(S, transactionIdCounter, handlers[i])
                /\ BuyTransaction(S, transactionIdCounter + 1, handlers[j])

\* both buys of one token of player 1 by the admin, who had 60, have been
\* answered: the log has the two buys and the holding has 61 tokens
C24_Witness ==
    /\ NoneInFlight
    /\ DOMAIN transactions = {1, 2}
    /\ \A k \in {1, 2} :
            /\ transactions[k].type = "buy"
            /\ transactions[k].userId = 1
            /\ transactions[k].playerId = 1
            /\ transactions[k].amount = 1
    /\ getTokenHolding(Store, 1, 1).amount = 61
    /\ getTokenHolding(Started, 1, 1).amount = 60

(***************************************************************************)
(* The players under trading and staking.                                  *)
(***************************************************************************)
SupplyWithinTotal ==
    \A p \in DOMAIN players : players[p].availableSupply <= players[p].totalSupply

PlayersUnchanged == players' = players /\ playerIdCounter' = playerIdCounter

\* C25: a buy, sell, swap, stake or unstake request, answered with success
\* or rejected, leaves every player record as it was (tokenPrice,
\* totalSupply and availableSupply included), so availableSupply stays at
\* most totalSupply for every player.
C25_PlayersUntouched == []SupplyWithinTotal /\ [][PlayersUnchanged]_vars

\* 53 tokens of player 1 have been bought and staked, and player 1 has the
\* supply it started with
C25_Witness ==
    /\ DOMAIN transactions = {1, 2}
    /\ transactions[1].type = "buy" /\ transactions[1].playerId = 1
    /\ transactions[1].amount = 53
    /\ transactions[2].type = "stake" /\ transactions[2].playerId = 1
    /\ players[1].availableSupply = PlayerSeed[1].availableSupply
    /\ players[1].tokenPrice = PlayerSeed[1].tokenPrice

(***************************************************************************)
(* Completion and progress.                                                *)
(***************************************************************************)
\* C26: in every reachable state every user-achievement record is completed
\* exactly when its progress is at least the requirementValue of its
\* achievement, however the record was made and updated.
C26_CompletedIffRequirementMet ==
    \A k \in DOMAIN userAchievements :
        userAchievements[k].completed <=>
            userAchievements[k].progress >=
                achievements[userAchievements[k].achievementId].requirementValue

\* user 2's records were made by a read (progress 0, none completed); of the
\* admin's, the record of the first transaction was raised to 2 by a later
\* check and is completed, the record of five transactions is at 2 and is
\* not, and the record of a portfolio worth 1000 was completed when made
C26_Witness ==
    /\ \A a \in DOMAIN achievements : FindUserAchievement(Store, 2, a) /= 0
    /\ \A k \in DOMAIN userAchievements :
            userAchievements[k].userId = 2 =>
                userAchievements[k].progress = 0 /\ ~userAchievements[k].completed
    /\ FindUserAchievement(Store, 1, 1) /= 0
    /\ RecordOf(1, 1).progress = 2 /\ RecordOf(1, 1).completed
    /\ RecordOf(1, 1).completedAt = 0 /\ now = TickDays
    /\ RecordOf(1, 2).progress = 2 /\ ~RecordOf(1, 2).completed
    /\ RecordOf(1, 5).completed /\ RecordOf(1, 5).completedAt = RecordOf(1, 5).createdAt

(***************************************************************************)
(* The staking fields of a holding.                                        *)
(***************************************************************************)
StakingFieldsSet(holding) ==
    /\ \E p \in DOMAIN stakingPlans : stakingPlans[p].name = holding.stakingPlan
    /\ holding.stakingStart /= NoDate
    /\ holding.stakingEnd /= NoDate
    /\ holding.stakingStart <= holding.stakingEnd

StakingFieldsUnset(holding) ==
    /\ holding.stakingPlan = NoPlan
    /\ holding.stakingStart = NoDate
    /\ holding.stakingEnd = NoDate

\* C27: in every state reached by buy, sell, swap, stake and unstake
\* requests, a staked holding has stakingPlan, stakingStart and stakingEnd
\* set, with stakingStart <= stakingEnd and stakingPlan the name of a plan
\* there is, and a holding that is not staked has all three unset.
C27_StakingFieldsFollowFlag ==
    \A k \in DOMAIN tokenHoldings :
        IF tokenHoldings[k].isStaked
        THEN StakingFieldsSet(tokenHoldings[k])
        ELSE StakingFieldsUnset(tokenHoldings[k])

\* user 2 has bought a holding, and after the tick the admin has staked the
\* holding of player 1 under the Rookie plan
C27_Witness ==
    /\ getTokenHolding(Store, 2, 1).id /= NoId
    /\ ~getTokenHolding(Store, 2, 1).isStaked
    /\ getTokenHolding(Store, 1, 1).isStaked
    /\ getTokenHolding(Store, 1, 1).stakingPlan = PlanSeed[1].name
    /\ getTokenHolding(Store, 1, 1).stakingStart = TickDays
    /\ getTokenHolding(Store, 1, 1).stakingEnd = TickDays + PlanSeed[1].lockPeriodDays

(***************************************************************************)
(* The holdings and the log of a user who started with nothing.            *)
(***************************************************************************)
\* the user's transactions of the type for the player
TradeIds(userId, playerId, type) ==
    {k \in DOMAIN transactions :
        /\ transactions[k].userId = userId
        /\ transactions[k].playerId = playerId
        /\ transactions[k].type = type}

RECURSIVE SumOfTrades(_)
SumOfTrades(ids) ==
    IF ids = {} THEN 0
    ELSE transactions[Min(ids)].amount + SumOfTrades(ids \ {Min(ids)})

\* the user has made buy and sell requests only: no swap has moved tokens
\* out of or into the user's holdings
OnlyBoughtAndSold(userId) ==
    \A k \in DOMAIN transactions :
        transactions[k].userId = userId => transactions[k].type /= "swap"

\* C28: with the handlers run one at a time, for a user who had no holdings
\* at the start and has only bought and sold, the amount of each holding is
\* the sum of the amounts of the user's buy transactions for the player less
\* the sum of the amounts of the user's sell transactions for the player.
C28_AmountIsBuysLessSells ==
    \A u \in DOMAIN users :
        UserTokenIds(Started, u) = {} /\ OnlyBoughtAndSold(u) =>
            \A k \in UserTokenIds(Store, u) :
                tokenHoldings[k].amount =
                    SumOfTrades(TradeIds(u, tokenHoldings[k].playerId, "buy"))
                    - SumOfTrades(TradeIds(u, tokenHoldings[k].playerId, "sell"))

\* user 2 has bought 53 tokens of player 5 and sold one of them
C28_Witness ==
    /\ UserTokenIds(Started, 2) = {}
    /\ DOMAIN transactions = {1, 2}
    /\ transactions[1].userId = 2 /\ transactions[1].type = "buy"
    /\ transactions[1].playerId = 5 /\ transactions[1].amount = 53
    /\ transactions[2].userId = 2 /\ transactions[2].type = "sell"
    /\ transactions[2].playerId = 5 /\ transactions[2].amount = 1
    /\ getTokenHolding(Store, 2, 5).amount = 52

(***************************************************************************)
(* The value that a swap moves, in cents at the prices of the players.     *)
(***************************************************************************)
\* amount * fromPrice of a swap request
ValueGiven(q) == q[4] * getPlayer(Store, q[2]).tokenPrice

\* toAmount * toPrice of the swap, S being the store it leaves
ValueTaken(S, q) == Credited(S, q) * getPlayer(Store, q[3]).tokenPrice

\* a successful swap does not add to the value of the user's holdings
SwapValueNotRaised ==
    \A q \in SwapRequests :
        LET r == Outcome(SwapHandler(q))
        IN  Succeeded(r) =>
              /\ ValueTaken(r.S, q) <= ValueGiven(q)
              /\ ValueInCents(r.S, UserTokenIds(r.S, q[1]))
                    <= ValueInCents(Store, UserTokenIds(Store, q[1]))

\* it loses less than the price of one token of the destination
SwapLossBelowOneToken ==
    \A q \in SwapRequests :
        LET r == Outcome(SwapHandler(q))
        IN  Succeeded(r) =>
              ValueGiven(q) - ValueTaken(r.S, q) < getPlayer(Store, q[3]).tokenPrice

\* a swap of a player for the same player leaves the holding's amount
SwapForSamePlayerKeepsAmount ==
    \A q \in SwapRequests :
        LET r == Outcome(SwapHandler(q))
        IN  Succeeded(r) /\ q[2] = q[3] =>
              getTokenHolding(r.S, q[1], q[2]).amount = HoldingOf(q[1], q[2]).amount

\* C29: a successful swap never raises the value of the user's portfolio at
\* the current prices (toAmount * toPrice <= amount * fromPrice), the value
\* lost to the rounding down is less than the price of one token of the
\* destination, and a swap of a player for the same player leaves the
\* holding's amount as it was.
C29_SwapValue ==
    SwapValueNotRaised /\ SwapLossBelowOneToken /\ SwapForSamePlayerKeepsAmount

(***************************************************************************)
(* The amount of a staked holding.                                         *)
(***************************************************************************)
StakedAmountKept ==
    \A k \in DOMAIN tokenHoldings :
        tokenHoldings[k].isStaked => tokenHoldings'[k].amount >= tokenHoldings[k].amount

\* C30: no step lowers the amount of a holding that is staked, the steps of
\* a sell or swap handler that read the holding before it was staked and
\* writes after included.
C30_StakedAmountNeverLowered == [][StakedAmountKept]_vars
====
